---- MODULE Spec2Model ----
(***************************************************************************)
(* Model of the nat-checker library: the STUN wire codec and transaction   *)
(* engine (client.go) and the NAT classifiers (nat_checker.go).            *)
(*                                                                         *)
(* Byte strings are sequences over 0..255.  Go slices are 0-indexed, so    *)
(* data[i] in the source is At(data, i) here and data[lo:hi] is            *)
(* Slice(data, lo, hi).                                                    *)
(***************************************************************************)
EXTENDS Integers, Sequences, FiniteSets, TLC

\* ------------------------------------------------------------------------
\* Bounds of the model
\* ------------------------------------------------------------------------

\* number of distinct reflexive ports a server may report
NumPorts == 2

\* number of distinct transaction identifiers rand.Read may produce
NumTxIDs == 2

\* callers that invoke a classifier at the same time
NumCallers == 2

\* longest attribute list of a datagram handed to the engine on its own
MaxAttrs == 3

\* ------------------------------------------------------------------------
\* Byte helpers
\* ------------------------------------------------------------------------

At(data, i) == data[i + 1]

Slice(data, lo, hi) == SubSeq(data, lo + 1, hi)

\* binary.BigEndian.Uint16
Uint16(b) == At(b, 0) * 256 + At(b, 1)

\* binary.BigEndian.PutUint16
PutUint16(v) == << (v \div 256) % 256, (v % 256) >>

\* binary.BigEndian.PutUint32
PutUint32(v) ==
  << (v \div 16777216) % 256, (v \div 65536) % 256, (v \div 256) % 256, (v % 256) >>

\* the ^ operator of Go on unsigned integers
RECURSIVE Xor(_, _)
Xor(a, b) ==
  IF a = 0 THEN b
  ELSE IF b = 0 THEN a
  ELSE (((a % 2) + (b % 2)) % 2) + 2 * Xor(a \div 2, b \div 2)

\* the | operator of Go on unsigned integers
RECURSIVE Or(_, _)
Or(a, b) ==
  IF a = 0 THEN b
  ELSE IF b = 0 THEN a
  ELSE (IF (a % 2) = 1 \/ (b % 2) = 1 THEN 1 ELSE 0) + 2 * Or(a \div 2, b \div 2)

\* ------------------------------------------------------------------------
\* Protocol constants (client.go)
\* ------------------------------------------------------------------------

BindingRequest == 1

BindingResponse == 257

BindingErrorResponse == 273

MappedAddress == 1

XorMappedAddress == 32

ChangeRequest == 3

ChangedAddress == 5

OtherAddress == 32812

ErrorCode == 9

STUNMagicCookie == 554869826

STUNMagicCookieBytes == << 33, 18, 164, 66 >>

\* ------------------------------------------------------------------------
\* Values: errors and addresses
\* ------------------------------------------------------------------------

\* A Go error value.  net is TRUE when the dynamic type implements
\* net.Error, timeout is the result of its Timeout() method.  kind "nil" is
\* the nil error.
MkErr(kind, isNet, isTimeout, code, reason) ==
  [kind |-> kind, net |-> isNet, timeout |-> isTimeout, code |-> code, reason |-> reason]

NoErr == MkErr("nil", FALSE, FALSE, 0, << >>)

\* fmt.Errorf without %w: a plain error, not a net.Error
FmtErr(kind) == MkErr(kind, FALSE, FALSE, 0, << >>)

\* *net.UDPAddr; NilAddr is the nil pointer
NilAddr == [IP |-> << >>, Port |-> -1]

UDPAddr(ip, port) == [IP |-> ip, Port |-> port]

\* ------------------------------------------------------------------------
\* Wire codec (client.go)
\* ------------------------------------------------------------------------

STUNAttribute(type, length, value) == [Type |-> type, Length |-> length, Value |-> value]

STUNMessage(type, txID, attrs) ==
  [MessageType |-> type, TransactionID |-> txID, Attributes |-> attrs]

\* padding added after a value of the given length
PadLen(length) == IF length % 4 # 0 THEN 4 - (length % 4) ELSE 0

\* faulty variant: the value is not padded to a multiple of 4 bytes
EncodeAttr_NoPadding(attr) ==
  PutUint16(attr.Type) \o PutUint16(attr.Length)
    \o [i \in 1..attr.Length |-> IF i <= Len(attr.Value) THEN attr.Value[i] ELSE 0]

\* one attribute as written by the second loop of encodeMessage: type,
\* length, then copy(data[offset+4:offset+4+Length], Value) into a zeroed
\* buffer, then the padding left at zero
EncodeAttr(attr) ==
  PutUint16(attr.Type) \o PutUint16(attr.Length)
    \o [i \in 1..attr.Length |-> IF i <= Len(attr.Value) THEN attr.Value[i] ELSE 0]
    \o [i \in 1..PadLen(attr.Length) |-> 0]

RECURSIVE EncodeAttrs(_)
EncodeAttrs(attrs) ==
  IF attrs = << >> THEN << >>
  ELSE EncodeAttr(Head(attrs)) \o EncodeAttrs(Tail(attrs))

\* attrLen of encodeMessage
RECURSIVE AttrLen(_)
AttrLen(attrs) ==
  IF attrs = << >> THEN 0
  ELSE 4 + Head(attrs).Length + PadLen(Head(attrs).Length) + AttrLen(Tail(attrs))

\* faulty variant: the length field counts the header too
encodeMessage_LengthWithHeader(msg) ==
  PutUint16(msg.MessageType)
    \o PutUint16((20 + AttrLen(msg.Attributes)) % 65536)
    \o PutUint32(STUNMagicCookie)
    \o msg.TransactionID
    \o EncodeAttrs(msg.Attributes)

encodeMessage(msg) ==
  PutUint16(msg.MessageType)
    \o PutUint16(AttrLen(msg.Attributes) % 65536)
    \o PutUint32(STUNMagicCookie)
    \o msg.TransactionID
    \o EncodeAttrs(msg.Attributes)

\* the attribute loop of decodeMessage, from a given offset
RECURSIVE DecodeAttrs(_, _)
DecodeAttrs(data, offset) ==
  IF ~(offset < Len(data)) THEN << >>
  ELSE IF offset + 4 > Len(data) THEN << >>
  ELSE LET attrType == Uint16(Slice(data, offset, offset + 2))
           attrLength == Uint16(Slice(data, offset + 2, offset + 4))
       IN IF offset + 4 + attrLength > Len(data) THEN << >>
          ELSE << STUNAttribute(attrType, attrLength,
                                Slice(data, offset + 4, offset + 4 + attrLength)) >>
                 \o DecodeAttrs(data, offset + 4 + attrLength + PadLen(attrLength))

\* faulty variant: a message without the magic cookie is rejected
decodeMessage_ChecksCookie(data) ==
  IF Len(data) < 20
  THEN [msg |-> STUNMessage(0, << >>, << >>), err |-> FmtErr("message too short")]
  ELSE IF Slice(data, 4, 8) # STUNMagicCookieBytes
  THEN [msg |-> STUNMessage(0, << >>, << >>), err |-> FmtErr("bad magic cookie")]
  ELSE [msg |-> STUNMessage(Uint16(Slice(data, 0, 2)), Slice(data, 8, 20),
                            DecodeAttrs(data, 20)),
        err |-> NoErr]

\* faulty variant: attributes of a type the code does not name are dropped
decodeMessage_DropsUnknown(data) ==
  IF Len(data) < 20
  THEN [msg |-> STUNMessage(0, << >>, << >>), err |-> FmtErr("message too short")]
  ELSE LET Known(a) == a.Type \in { MappedAddress, XorMappedAddress, ChangeRequest,
                                    ChangedAddress, OtherAddress, ErrorCode }
       IN [msg |-> STUNMessage(Uint16(Slice(data, 0, 2)), Slice(data, 8, 20),
                               SelectSeq(DecodeAttrs(data, 20), Known)),
           err |-> NoErr]

\* faulty variant: the loop walks the receive buffer behind the datagram
\* too, where the bytes are zero
decodeMessage_WalksCapacity(data) ==
  IF Len(data) < 20
  THEN [msg |-> STUNMessage(0, << >>, << >>), err |-> FmtErr("message too short")]
  ELSE [msg |-> STUNMessage(Uint16(Slice(data, 0, 2)), Slice(data, 8, 20),
                            DecodeAttrs(data \o << 0, 0, 0, 0, 0, 0, 0, 0 >>, 20)),
        err |-> NoErr]

\* decodeMessage returns (msg, err)
decodeMessage(data) ==
  IF Len(data) < 20
  THEN [msg |-> STUNMessage(0, << >>, << >>), err |-> FmtErr("message too short")]
  ELSE [msg |-> STUNMessage(Uint16(Slice(data, 0, 2)), Slice(data, 8, 20),
                            DecodeAttrs(data, 20)),
        err |-> NoErr]

\* faulty variant: in XOR mode the port is returned as it is on the wire
parseAddress_PortNotXored(data, isXor, txID) ==
  IF Len(data) < 8
  THEN [addr |-> NilAddr, err |-> FmtErr("address data too short")]
  ELSE LET family == At(data, 1)
           port == Uint16(Slice(data, 2, 4))
       IN CASE family = 1 ->
                 LET ip == Slice(data, 4, 8)
                 IN IF isXor
                    THEN [addr |-> UDPAddr([i \in 1..4 |-> Xor(ip[i], STUNMagicCookieBytes[i])],
                                           port),
                          err |-> NoErr]
                    ELSE [addr |-> UDPAddr(ip, port), err |-> NoErr]
            [] family = 2 ->
                 IF Len(data) < 20
                 THEN [addr |-> NilAddr, err |-> FmtErr("IPv6 address data too short")]
                 ELSE LET ip == Slice(data, 4, 20)
                          xorKey == STUNMagicCookieBytes \o txID
                      IN IF isXor
                         THEN [addr |-> UDPAddr([i \in 1..16 |-> Xor(ip[i], xorKey[i])],
                                                port),
                               err |-> NoErr]
                         ELSE [addr |-> UDPAddr(ip, port), err |-> NoErr]
            [] OTHER ->
                 [addr |-> NilAddr, err |-> FmtErr("unsupported address family")]

\* faulty variant: the family is looked at before the length
parseAddress_FamilyFirst(data, isXor, txID) ==
  IF Len(data) < 2
  THEN [addr |-> NilAddr, err |-> FmtErr("address data too short")]
  ELSE IF At(data, 1) \notin { 1, 2 }
  THEN [addr |-> NilAddr, err |-> FmtErr("unsupported address family")]
  ELSE IF Len(data) < 8
  THEN [addr |-> NilAddr, err |-> FmtErr("address data too short")]
  ELSE LET family == At(data, 1)
           port == Uint16(Slice(data, 2, 4))
       IN CASE family = 1 ->
                 LET ip == Slice(data, 4, 8)
                 IN IF isXor
                    THEN [addr |-> UDPAddr([i \in 1..4 |-> Xor(ip[i], STUNMagicCookieBytes[i])],
                                           Xor(port, 8466)),
                          err |-> NoErr]
                    ELSE [addr |-> UDPAddr(ip, port), err |-> NoErr]
            [] family = 2 ->
                 IF Len(data) < 20
                 THEN [addr |-> NilAddr, err |-> FmtErr("IPv6 address data too short")]
                 ELSE LET ip == Slice(data, 4, 20)
                          xorKey == STUNMagicCookieBytes \o txID
                      IN IF isXor
                         THEN [addr |-> UDPAddr([i \in 1..16 |-> Xor(ip[i], xorKey[i])],
                                                Xor(port, 8466)),
                               err |-> NoErr]
                         ELSE [addr |-> UDPAddr(ip, port), err |-> NoErr]
            [] OTHER ->
                 [addr |-> NilAddr, err |-> FmtErr("unsupported address family")]

\* parseAddress returns (addr, err)
parseAddress(data, isXor, txID) ==
  IF Len(data) < 8
  THEN [addr |-> NilAddr, err |-> FmtErr("address data too short")]
  ELSE LET family == At(data, 1)
           port == Uint16(Slice(data, 2, 4))
       IN CASE family = 1 ->
                 LET ip == Slice(data, 4, 8)
                 IN IF isXor
                    THEN [addr |-> UDPAddr([i \in 1..4 |-> Xor(ip[i], STUNMagicCookieBytes[i])],
                                           Xor(port, 8466)),
                          err |-> NoErr]
                    ELSE [addr |-> UDPAddr(ip, port), err |-> NoErr]
            [] family = 2 ->
                 IF Len(data) < 20
                 THEN [addr |-> NilAddr, err |-> FmtErr("IPv6 address data too short")]
                 ELSE LET ip == Slice(data, 4, 20)
                          xorKey == STUNMagicCookieBytes \o txID
                      IN IF isXor
                         THEN [addr |-> UDPAddr([i \in 1..16 |-> Xor(ip[i], xorKey[i])],
                                                Xor(port, 8466)),
                               err |-> NoErr]
                         ELSE [addr |-> UDPAddr(ip, port), err |-> NoErr]
            [] OTHER ->
                 [addr |-> NilAddr, err |-> FmtErr("unsupported address family")]

\* extractErrorCode returns (code, reason)
RECURSIVE ExtractFrom(_)
ExtractFrom(attrs) ==
  IF attrs = << >> THEN [code |-> 0, reason |-> << >>]
  ELSE LET attr == Head(attrs)
       IN IF attr.Type = ErrorCode /\ Len(attr.Value) >= 4
          THEN [code |-> (At(attr.Value, 2) % 8) * 100 + At(attr.Value, 3),
                reason |-> IF Len(attr.Value) > 4
                           THEN Slice(attr.Value, 4, Len(attr.Value))
                           ELSE << >>]
          ELSE ExtractFrom(Tail(attrs))

\* faulty variant: the reason phrase is dropped
extractErrorCode_NoReason(msg) ==
  [code |-> ExtractFrom(msg.Attributes).code, reason |-> << >>]

extractErrorCode(msg) == ExtractFrom(msg.Attributes)

\* ------------------------------------------------------------------------
\* The platform: name resolution and the UDP socket
\* ------------------------------------------------------------------------

\* errors of UDPConn.WriteToUDP (*net.OpError; no write deadline is set)
WriteErrs == { MkErr("write: network is unreachable", TRUE, FALSE, 0, << >>) }

\* errors of UDPConn.ReadFromUDP (*net.OpError): the read deadline set by
\* SetReadDeadline expiring, or a failure that is not a timeout
ReadTimeout == MkErr("read: i/o timeout", TRUE, TRUE, 0, << >>)

\* transaction identifiers produced by rand.Read
TxIDs == { [i \in 1..12 |-> k] : k \in 1..NumTxIDs }

\* the transaction identifier servers put in their replies (the engine never
\* compares it with the request's)
ServerTxID == [i \in 1..12 |-> 7 + i]

\* reflexive ports a server may report
ReflexivePorts == { 12345 + k : k \in 0..(NumPorts - 1) }

\* payload of an address attribute: reserved, family, port, address
AddrValue(family, port, ip) == << 0, family >> \o PutUint16(port) \o ip

\* the XOR-obfuscated IPv4 payload of RFC 8489 section 14.2
XorAddrValue(port, ip) ==
  AddrValue(1, Xor(port, 8466), [i \in 1..4 |-> Xor(ip[i], STUNMagicCookieBytes[i])])

ClientIP == << 203, 0, 113, 1 >>

AltServerIP == << 198, 51, 100, 2 >>

Attr(type, value) == STUNAttribute(type, Len(value), value)

\* ------------------------------------------------------------------------
\* Transaction engine (client.go)
\* ------------------------------------------------------------------------

\* the value of the CHANGE-REQUEST attribute
ChangeValue_FlagsSwapped(changeIP, changePort) ==
  Or(IF changeIP THEN 2 ELSE 0, IF changePort THEN 4 ELSE 0)

ChangeValue(changeIP, changePort) ==
  Or(IF changeIP THEN 4 ELSE 0, IF changePort THEN 2 ELSE 0)

\* the request built by SendBindingRequest
BindingRequestMsg(changeIP, changePort, txID) ==
  STUNMessage(BindingRequest, txID,
              IF changeIP \/ changePort
              THEN << STUNAttribute(ChangeRequest, 4,
                                    PutUint32(ChangeValue(changeIP, changePort))) >>
              ELSE << >>)

\* the loop of SendBindingRequest over the response's attributes
RECURSIVE FindMapped(_, _)
FindMapped(attrs, txID) ==
  IF attrs = << >>
  THEN [addr |-> NilAddr, err |-> FmtErr("mapped address not found in response")]
  ELSE IF Head(attrs).Type = XorMappedAddress
       THEN parseAddress(Head(attrs).Value, TRUE, txID)
       ELSE IF Head(attrs).Type = MappedAddress
            THEN parseAddress(Head(attrs).Value, FALSE, txID)
            ELSE FindMapped(Tail(attrs), txID)

\* faulty variant: an error response is searched for an address like any other
SendBindingRequest_NoErrorCheck(serverAddr, changeIP, changePort, txID, net) ==
  IF net.stage = "resolve"
  THEN [addr |-> NilAddr, err |-> net.err, wrote |-> << >>, reads |-> 0]
  ELSE LET data == encodeMessage(BindingRequestMsg(changeIP, changePort, txID))
           wrote == << [to |-> serverAddr, data |-> data] >>
       IN IF net.stage = "write"
          THEN [addr |-> NilAddr, err |-> net.err, wrote |-> wrote, reads |-> 0]
          ELSE IF net.stage = "read"
          THEN [addr |-> NilAddr, err |-> net.err, wrote |-> wrote, reads |-> 1]
          ELSE LET dec == decodeMessage(net.data)
                   response == dec.msg
               IN IF dec.err # NoErr
                  THEN [addr |-> NilAddr, err |-> dec.err, wrote |-> wrote, reads |-> 1]
                  ELSE IF FALSE
                  THEN LET ec == extractErrorCode(response)
                       IN [addr |-> NilAddr,
                           err |-> MkErr("STUN error response", FALSE, FALSE,
                                         ec.code, ec.reason),
                           wrote |-> wrote, reads |-> 1]
                  ELSE LET r == FindMapped(response.Attributes, response.TransactionID)
                       IN [addr |-> r.addr, err |-> r.err, wrote |-> wrote, reads |-> 1]

\* faulty variant: a response with another transaction ID is rejected
SendBindingRequest_ChecksTxID(serverAddr, changeIP, changePort, txID, net) ==
  IF net.stage = "resolve"
  THEN [addr |-> NilAddr, err |-> net.err, wrote |-> << >>, reads |-> 0]
  ELSE LET data == encodeMessage(BindingRequestMsg(changeIP, changePort, txID))
           wrote == << [to |-> serverAddr, data |-> data] >>
       IN IF net.stage = "write"
          THEN [addr |-> NilAddr, err |-> net.err, wrote |-> wrote, reads |-> 0]
          ELSE IF net.stage = "read"
          THEN [addr |-> NilAddr, err |-> net.err, wrote |-> wrote, reads |-> 1]
          ELSE LET dec == decodeMessage(net.data)
                   response == dec.msg
               IN IF dec.err # NoErr
                  THEN [addr |-> NilAddr, err |-> dec.err, wrote |-> wrote, reads |-> 1]
                  ELSE IF response.TransactionID # txID
                  THEN [addr |-> NilAddr, err |-> FmtErr("transaction ID mismatch"),
                        wrote |-> wrote, reads |-> 1]
                  ELSE IF response.MessageType = BindingErrorResponse
                  THEN LET ec == extractErrorCode(response)
                       IN [addr |-> NilAddr,
                           err |-> MkErr("STUN error response", FALSE, FALSE,
                                         ec.code, ec.reason),
                           wrote |-> wrote, reads |-> 1]
                  ELSE LET r == FindMapped(response.Attributes, response.TransactionID)
                       IN [addr |-> r.addr, err |-> r.err, wrote |-> wrote, reads |-> 1]

\* faulty variant: the request is sent and awaited again after a failed read
SendBindingRequest_Retransmit(serverAddr, changeIP, changePort, txID, net) ==
  IF net.stage = "resolve"
  THEN [addr |-> NilAddr, err |-> net.err, wrote |-> << >>, reads |-> 0]
  ELSE LET data == encodeMessage(BindingRequestMsg(changeIP, changePort, txID))
           wrote == << [to |-> serverAddr, data |-> data] >>
       IN IF net.stage = "write"
          THEN [addr |-> NilAddr, err |-> net.err, wrote |-> wrote, reads |-> 0]
          ELSE IF net.stage = "read"
          THEN [addr |-> NilAddr, err |-> net.err, wrote |-> wrote \o wrote, reads |-> 2]
          ELSE LET dec == decodeMessage(net.data)
                   response == dec.msg
               IN IF dec.err # NoErr
                  THEN [addr |-> NilAddr, err |-> dec.err, wrote |-> wrote, reads |-> 1]
                  ELSE IF response.MessageType = BindingErrorResponse
                  THEN LET ec == extractErrorCode(response)
                       IN [addr |-> NilAddr,
                           err |-> MkErr("STUN error response", FALSE, FALSE,
                                         ec.code, ec.reason),
                           wrote |-> wrote, reads |-> 1]
                  ELSE LET r == FindMapped(response.Attributes, response.TransactionID)
                       IN [addr |-> r.addr, err |-> r.err, wrote |-> wrote, reads |-> 1]

\* SendBindingRequest returns (addr, err); wrote is the sequence of
\* datagrams it handed to WriteToUDP (none or one), reads the number of its
\* calls of ReadFromUDP
SendBindingRequest(serverAddr, changeIP, changePort, txID, net) ==
  IF net.stage = "resolve"
  THEN [addr |-> NilAddr, err |-> net.err, wrote |-> << >>, reads |-> 0]
  ELSE LET data == encodeMessage(BindingRequestMsg(changeIP, changePort, txID))
           wrote == << [to |-> serverAddr, data |-> data] >>
       IN IF net.stage = "write"
          THEN [addr |-> NilAddr, err |-> net.err, wrote |-> wrote, reads |-> 0]
          ELSE IF net.stage = "read"
          THEN [addr |-> NilAddr, err |-> net.err, wrote |-> wrote, reads |-> 1]
          ELSE LET dec == decodeMessage(net.data)
                   response == dec.msg
               IN IF dec.err # NoErr
                  THEN [addr |-> NilAddr, err |-> dec.err, wrote |-> wrote, reads |-> 1]
                  ELSE IF response.MessageType = BindingErrorResponse
                  THEN LET ec == extractErrorCode(response)
                       IN [addr |-> NilAddr,
                           err |-> MkErr("STUN error response", FALSE, FALSE,
                                         ec.code, ec.reason),
                           wrote |-> wrote, reads |-> 1]
                  ELSE LET r == FindMapped(response.Attributes, response.TransactionID)
                       IN [addr |-> r.addr, err |-> r.err, wrote |-> wrote, reads |-> 1]

\* the loop of GetAlternateAddress over the response's attributes
RECURSIVE FindOther(_, _)
FindOther(attrs, txID) ==
  IF attrs = << >>
  THEN [addr |-> NilAddr, err |-> FmtErr("OTHER-ADDRESS not found in response")]
  ELSE IF Head(attrs).Type = OtherAddress \/ Head(attrs).Type = ChangedAddress
       THEN parseAddress(Head(attrs).Value, FALSE, txID)
       ELSE FindOther(Tail(attrs), txID)

\* faulty variant: OTHER-ADDRESS is taken before CHANGED-ADDRESS whatever
\* the order of the attributes
GetAlternateAddress_OtherPrecedence(serverAddr, txID, net) ==
  IF net.stage = "resolve"
  THEN [addr |-> NilAddr, err |-> net.err, wrote |-> << >>, reads |-> 0]
  ELSE LET data == encodeMessage(STUNMessage(BindingRequest, txID, << >>))
           wrote == << [to |-> serverAddr, data |-> data] >>
       IN IF net.stage = "write"
          THEN [addr |-> NilAddr, err |-> net.err, wrote |-> wrote, reads |-> 0]
          ELSE IF net.stage = "read"
          THEN [addr |-> NilAddr, err |-> net.err, wrote |-> wrote, reads |-> 1]
          ELSE LET dec == decodeMessage(net.data)
                   response == dec.msg
               IN IF dec.err # NoErr
                  THEN [addr |-> NilAddr, err |-> dec.err, wrote |-> wrote, reads |-> 1]
                  ELSE LET IsOther(a) == a.Type = OtherAddress
                           IsChanged(a) == a.Type = ChangedAddress
                           r == FindOther(SelectSeq(response.Attributes, IsOther)
                                            \o SelectSeq(response.Attributes, IsChanged),
                                          response.TransactionID)
                       IN [addr |-> r.addr, err |-> r.err, wrote |-> wrote, reads |-> 1]

GetAlternateAddress(serverAddr, txID, net) ==
  IF net.stage = "resolve"
  THEN [addr |-> NilAddr, err |-> net.err, wrote |-> << >>, reads |-> 0]
  ELSE LET data == encodeMessage(STUNMessage(BindingRequest, txID, << >>))
           wrote == << [to |-> serverAddr, data |-> data] >>
       IN IF net.stage = "write"
          THEN [addr |-> NilAddr, err |-> net.err, wrote |-> wrote, reads |-> 0]
          ELSE IF net.stage = "read"
          THEN [addr |-> NilAddr, err |-> net.err, wrote |-> wrote, reads |-> 1]
          ELSE LET dec == decodeMessage(net.data)
                   response == dec.msg
               IN IF dec.err # NoErr
                  THEN [addr |-> NilAddr, err |-> dec.err, wrote |-> wrote, reads |-> 1]
                  ELSE LET r == FindOther(response.Attributes, response.TransactionID)
                       IN [addr |-> r.addr, err |-> r.err, wrote |-> wrote, reads |-> 1]

\* ------------------------------------------------------------------------
\* Classification types (nat_checker.go)
\* ------------------------------------------------------------------------

\* NATMappingType
EndpointIndependent == 0

AddressDependent == 1

AddressPortDependent == 2

Unknown == 3

\* NATFilteringType
EndpointIndependentFiltering == 0

AddressDependentFiltering == 1

AddressPortDependentFiltering == 2

FilteringUnknown == 3

DetailedNATType(mapping, filtering) == [Mapping |-> mapping, Filtering |-> filtering]

\* faulty variant: the Port Restricted test forgets the filtering verdict
LegacyName_NoFilteringCheck(d) ==
  IF d.Mapping = EndpointIndependent /\ d.Filtering = EndpointIndependentFiltering
  THEN "Full Cone NAT"
  ELSE IF d.Mapping = EndpointIndependent /\ d.Filtering = AddressDependentFiltering
  THEN "Restricted Cone NAT"
  ELSE IF d.Mapping = EndpointIndependent
  THEN "Port Restricted Cone NAT"
  ELSE IF d.Mapping = AddressDependent \/ d.Mapping = AddressPortDependent
  THEN "Symmetric NAT"
  ELSE "Unknown NAT Type"

LegacyName(d) ==
  IF d.Mapping = EndpointIndependent /\ d.Filtering = EndpointIndependentFiltering
  THEN "Full Cone NAT"
  ELSE IF d.Mapping = EndpointIndependent /\ d.Filtering = AddressDependentFiltering
  THEN "Restricted Cone NAT"
  ELSE IF d.Mapping = EndpointIndependent /\ d.Filtering = AddressPortDependentFiltering
  THEN "Port Restricted Cone NAT"
  ELSE IF d.Mapping = AddressDependent \/ d.Mapping = AddressPortDependent
  THEN "Symmetric NAT"
  ELSE "Unknown NAT Type"

\* faulty variant: the two comparisons are taken in the other order
determineNATType_SwappedTests(mappingA1, mappingB1, mappingA2) ==
  IF mappingA1.Port # mappingB1.Port
  THEN AddressPortDependent
  ELSE IF mappingA1.Port = mappingA2.Port
       THEN EndpointIndependent
       ELSE AddressDependent

\* faulty variant: the endpoints are compared, address and port
determineNATType_ComparesEndpoints(mappingA1, mappingB1, mappingA2) ==
  IF mappingA1 # mappingA2
  THEN AddressPortDependent
  ELSE IF mappingA1 = mappingB1
       THEN EndpointIndependent
       ELSE AddressDependent

determineNATType(mappingA1, mappingB1, mappingA2) ==
  IF mappingA1.Port # mappingA2.Port
  THEN AddressPortDependent
  ELSE IF mappingA1.Port = mappingB1.Port
       THEN EndpointIndependent
       ELSE AddressDependent

\* ------------------------------------------------------------------------
\* CheckFilteringBehavior (nat_checker.go), as steps between network calls
\* ------------------------------------------------------------------------

\* the candidate server ports, in the order they are tried
Ports == << 3478, 19302 >>

\* *CheckFilteringResult; NilResult is the nil pointer
NilResult == [nil |-> TRUE]

CheckFilteringResult(filteringType, otherAddr, testII, testIII, changeReq, otherSupp) ==
  [nil |-> FALSE,
   FilteringType |-> filteringType,
   Response |-> [OtherAddress |-> otherAddr,
                 TestIIResponse |-> testII,
                 TestIIIResponse |-> testIII],
   ServerSupport |-> [SupportsChangeRequest |-> changeReq,
                      SupportsOtherAddress |-> otherSupp]]

\* A step of the classifier yields the result built so far, whether the
\* function returns here, and the error it returns.

\* faulty variant: the early return for a missing alternate address is lost
AfterTestI_NoEarlyReturn(otherAddr) ==
  [result |-> CheckFilteringResult(EndpointIndependentFiltering, otherAddr,
                                   FALSE, FALSE, FALSE, otherAddr # NilAddr),
   return |-> FALSE, err |-> NoErr]

\* after the Test I loop: build the result; return when no alternate address
AfterTestI(otherAddr) ==
  LET result == CheckFilteringResult(EndpointIndependentFiltering, otherAddr,
                                     FALSE, FALSE, FALSE, otherAddr # NilAddr)
  IN IF otherAddr = NilAddr
     THEN [result |-> [result EXCEPT !.FilteringType = FilteringUnknown],
           return |-> TRUE, err |-> NoErr]
     ELSE [result |-> result, return |-> FALSE, err |-> NoErr]

\* faulty variant: a Test II response does not end the run
AfterTestII_NoReturnOnResponse(result, testIIAddr, testIIErr) ==
  LET r1 == [result EXCEPT !.Response.TestIIResponse =
                               (testIIErr = NoErr /\ testIIAddr # NilAddr)]
  IN IF r1.Response.TestIIResponse
     THEN [result |-> [r1 EXCEPT !.FilteringType = EndpointIndependentFiltering,
                                 !.ServerSupport.SupportsChangeRequest = TRUE],
           return |-> FALSE, err |-> NoErr]
     ELSE IF testIIErr # NoErr /\ ~(testIIErr.net /\ testIIErr.timeout)
          THEN [result |-> [r1 EXCEPT !.FilteringType = FilteringUnknown,
                                      !.ServerSupport.SupportsChangeRequest = FALSE],
                return |-> TRUE, err |-> NoErr]
          ELSE [result |-> r1, return |-> FALSE, err |-> NoErr]

\* faulty variant: every Test II error, timeout or not, leads to Test III
AfterTestII_ErrorFallsThrough(result, testIIAddr, testIIErr) ==
  LET r1 == [result EXCEPT !.Response.TestIIResponse =
                               (testIIErr = NoErr /\ testIIAddr # NilAddr)]
  IN IF r1.Response.TestIIResponse
     THEN [result |-> [r1 EXCEPT !.FilteringType = EndpointIndependentFiltering,
                                 !.ServerSupport.SupportsChangeRequest = TRUE],
           return |-> TRUE, err |-> NoErr]
     ELSE [result |-> r1, return |-> FALSE, err |-> NoErr]

\* faulty variant: a Test II error that is not a timeout is returned as the
\* error of the call
AfterTestII_Propagate(result, testIIAddr, testIIErr) ==
  LET r1 == [result EXCEPT !.Response.TestIIResponse =
                               (testIIErr = NoErr /\ testIIAddr # NilAddr)]
  IN IF r1.Response.TestIIResponse
     THEN [result |-> [r1 EXCEPT !.FilteringType = EndpointIndependentFiltering,
                                 !.ServerSupport.SupportsChangeRequest = TRUE],
           return |-> TRUE, err |-> NoErr]
     ELSE IF testIIErr # NoErr /\ ~(testIIErr.net /\ testIIErr.timeout)
          THEN [result |-> [r1 EXCEPT !.FilteringType = FilteringUnknown,
                                      !.ServerSupport.SupportsChangeRequest = FALSE],
                return |-> TRUE, err |-> testIIErr]
          ELSE [result |-> r1, return |-> FALSE, err |-> NoErr]

\* after Test II
AfterTestII(result, testIIAddr, testIIErr) ==
  LET r1 == [result EXCEPT !.Response.TestIIResponse =
                               (testIIErr = NoErr /\ testIIAddr # NilAddr)]
  IN IF r1.Response.TestIIResponse
     THEN [result |-> [r1 EXCEPT !.FilteringType = EndpointIndependentFiltering,
                                 !.ServerSupport.SupportsChangeRequest = TRUE],
           return |-> TRUE, err |-> NoErr]
     ELSE IF testIIErr # NoErr /\ ~(testIIErr.net /\ testIIErr.timeout)
          THEN [result |-> [r1 EXCEPT !.FilteringType = FilteringUnknown,
                                      !.ServerSupport.SupportsChangeRequest = FALSE],
                return |-> TRUE, err |-> NoErr]
          ELSE [result |-> r1, return |-> FALSE, err |-> NoErr]

\* faulty variant: a Test III error is returned instead of a verdict
AfterTestIII_Propagate(result, testIIIAddr, testIIIErr) ==
  LET r1 == [result EXCEPT !.Response.TestIIIResponse =
                               (testIIIErr = NoErr /\ testIIIAddr # NilAddr)]
  IN IF r1.Response.TestIIIResponse
     THEN [result |-> [r1 EXCEPT !.FilteringType = AddressDependentFiltering,
                                 !.ServerSupport.SupportsChangeRequest = TRUE],
           return |-> TRUE, err |-> NoErr]
     ELSE [result |-> NilResult, return |-> TRUE, err |-> testIIIErr]

\* faulty variant: the last branch forgets SupportsChangeRequest
AfterTestIII_NoChangeRequestFlag(result, testIIIAddr, testIIIErr) ==
  LET r1 == [result EXCEPT !.Response.TestIIIResponse =
                               (testIIIErr = NoErr /\ testIIIAddr # NilAddr)]
  IN IF r1.Response.TestIIIResponse
     THEN [result |-> [r1 EXCEPT !.FilteringType = AddressDependentFiltering,
                                 !.ServerSupport.SupportsChangeRequest = TRUE],
           return |-> TRUE, err |-> NoErr]
     ELSE [result |-> [r1 EXCEPT !.FilteringType = AddressPortDependentFiltering],
           return |-> TRUE, err |-> NoErr]

\* after Test III
AfterTestIII(result, testIIIAddr, testIIIErr) ==
  LET r1 == [result EXCEPT !.Response.TestIIIResponse =
                               (testIIIErr = NoErr /\ testIIIAddr # NilAddr)]
  IN IF r1.Response.TestIIIResponse
     THEN [result |-> [r1 EXCEPT !.FilteringType = AddressDependentFiltering,
                                 !.ServerSupport.SupportsChangeRequest = TRUE],
           return |-> TRUE, err |-> NoErr]
     ELSE [result |-> [r1 EXCEPT !.FilteringType = AddressPortDependentFiltering,
                                 !.ServerSupport.SupportsChangeRequest = TRUE],
           return |-> TRUE, err |-> NoErr]

\* ------------------------------------------------------------------------
\* State
\* ------------------------------------------------------------------------

VARIABLES
  pc,              \* position of the running call
  conn,            \* the client's UDP socket: "none", "open", "closed"
  arg,             \* serverAddr argument of CheckFilteringBehavior
  portIx,          \* index into Ports of the next Test I attempt
  serverWithPort,  \* local of CheckFilteringBehavior
  result,          \* local of CheckFilteringBehavior
  ret,             \* what the call returned: [result, err]
  calls,           \* history: the engine calls made, with what the platform did
  wire,            \* history: the datagrams handed to WriteToUDP
  call,            \* a pure function applied to drawn inputs
  out,             \* its value
  world,           \* what the platform may do: [net, tx]
  top,             \* the function the caller invoked
  socks,           \* history: every socket bound so far, "open" or "closed"
  margs,           \* arguments of CheckMappingType: [A, B]
  mstage,          \* the mapping probe in progress: 1 (A1), 2 (B1), 3 (A2)
  mportIx,         \* index into Ports of the mapping probe's next attempt
  mappings,        \* locals mappingA1, mappingB1, mappingA2
  pending,         \* requests written whose engine call has not ended
  mret,            \* what CheckMappingType returned
  fret,            \* what FullNATDetection returned
  par,             \* the invocation of each of several simultaneous callers
  inbox            \* the datagrams queued at each socket of these callers

mapvars == << margs, mstage, mportIx, mappings, pending, mret >>

parvars == << par, inbox >>

vars == << pc, conn, arg, portIx, serverWithPort, result, ret, calls, wire, call, out,
           world, top, socks, margs, mstage, mportIx, mappings, pending, mret, fret,
           par, inbox >>

Servers == { "stun-a.example", "stun-b.example" }

NoServer == [host |-> "", port |-> 0]

NoRet == [returned |-> FALSE, result |-> NilResult, err |-> NoErr]

NoCall == [fn |-> "none", args |-> << >>]

NoOut == [done |-> FALSE, val |-> 0]

\* *CheckMappingResult and *FullNATDetectionResult; nil pointers
NilMappingResult == [nil |-> TRUE]

NilFullResult == [nil |-> TRUE]

NoMapRet == [returned |-> FALSE, result |-> NilMappingResult, err |-> NoErr]

\* where the engine is sent when it is applied on its own
FnServer == [host |-> "stun-a.example", port |-> Ports[1]]

FnTxID == [i \in 1..12 |-> 1]

Callers == 1..NumCallers

\* a caller that has not yet invoked CheckMappingType
IdleCaller ==
  [pc |-> "idle", bound |-> FALSE, sock |-> 0, open |-> FALSE, stage |-> 1, portIx |-> 1,
   mappings |-> << NilAddr, NilAddr, NilAddr >>, hist |-> << >>, ret |-> NoMapRet]

\* the platform without restriction
FullWorld == [net |-> ({ [stage |-> "resolve", err |-> e, data |-> << >>] : e \in ({ MkErr("lookup: i/o timeout", TRUE, TRUE, 0, << >>),
                                                                                     MkErr("lookup: no such host", TRUE, FALSE, 0, << >>) }) }
                       \cup { [stage |-> "write", err |-> e, data |-> << >>] : e \in WriteErrs }
                       \cup { [stage |-> "read", err |-> e, data |-> << >>] : e \in ({ ReadTimeout, MkErr("read: connection refused", TRUE, FALSE, 0, << >>) }) }
                       \cup { [stage |-> "data", err |-> NoErr, data |-> d] : d \in ({ encodeMessage(STUNMessage(BindingResponse, ServerTxID,
                                                                                                                 << Attr(XorMappedAddress, XorAddrValue(p, ClientIP)) >>))
                                                                                         : p \in ReflexivePorts }
                                                                                     \cup
                                                                                     { \* Success with MAPPED-ADDRESS only
                                                                                       encodeMessage(STUNMessage(BindingResponse, ServerTxID,
                                                                                                                 << Attr(MappedAddress, AddrValue(1, 12345, ClientIP)) >>)),
                                                                                       encodeMessage(STUNMessage(BindingResponse, ServerTxID,
                                                                                                                 << Attr(XorMappedAddress, XorAddrValue(12345, ClientIP)),
                                                                                                                    Attr(OtherAddress, AddrValue(1, 3479, AltServerIP)) >>)),
                                                                                       encodeMessage(STUNMessage(BindingResponse, ServerTxID,
                                                                                                                 << Attr(MappedAddress, AddrValue(1, 12345, ClientIP)),
                                                                                                                    Attr(ChangedAddress, AddrValue(1, 3479, AltServerIP)) >>)),
                                                                                       encodeMessage(STUNMessage(BindingResponse, ServerTxID, << >>)),
                                                                                       encodeMessage(STUNMessage(BindingResponse, ServerTxID,
                                                                                                                 << Attr(MappedAddress, AddrValue(3, 12345, ClientIP)) >>)),
                                                                                       encodeMessage(STUNMessage(BindingErrorResponse, ServerTxID,
                                                                                                                 << Attr(ErrorCode, << 0, 0, 4, 20, 85, 110, 107 >>) >>)),
                                                                                       encodeMessage(STUNMessage(BindingErrorResponse, ServerTxID,
                                                                                                                 << Attr(ErrorCode, << 0, 0, 5, 0 >>),
                                                                                                                    Attr(MappedAddress, AddrValue(1, 12345, ClientIP)),
                                                                                                                    Attr(OtherAddress, AddrValue(1, 3479, AltServerIP)) >>)),
                                                                                       encodeMessage(STUNMessage(BindingRequest, ServerTxID,
                                                                                                                 << Attr(MappedAddress, AddrValue(1, 12345, ClientIP)) >>)),
                                                                                       << 1, 1, 0, 0 >> }) }), tx |-> TxIDs]

\* the part of the state that CheckFilteringBehavior alone leaves at rest
InitRest ==
  /\ top = ""
  /\ socks = << >>
  /\ margs = ([A |-> "", B |-> ""])
  /\ mstage = 1
  /\ mportIx = 1
  /\ mappings = << NilAddr, NilAddr, NilAddr >>
  /\ pending = << >>
  /\ mret = NoMapRet
  /\ fret = ([returned |-> FALSE, result |-> NilFullResult, err |-> NoErr])
  /\ par = [p \in Callers |-> IdleCaller]
  /\ inbox = [s \in Callers |-> << >>]

CallRec(fn, to, changeIP, changePort, txID, net, r) ==
  [fn |-> fn, to |-> to, changeIP |-> changeIP, changePort |-> changePort,
   txID |-> txID, net |-> net, addr |-> r.addr, err |-> r.err,
   wrote |-> Len(r.wrote), reads |-> r.reads]

Init ==
  /\ pc = "idle"
  /\ conn = "none"
  /\ arg = ""
  /\ portIx = 1
  /\ serverWithPort = NoServer
  /\ result = NilResult
  /\ ret = NoRet
  /\ calls = << >>
  /\ wire = << >>
  /\ call = NoCall
  /\ out = NoOut
  /\ world = FullWorld
  /\ InitRest

\* NewSTUNClient binds a new socket
BindSocket == socks' = Append(socks, "open")

\* faulty variant: the socket is left open
CloseSocket_Leak == socks' = socks

\* client.Close() closes the client's socket, the last one bound
CloseSocket == socks' = [socks EXCEPT ![Len(socks)] = "closed"]

\* return res, e: the deferred client.Close() runs
Return(res, e) ==
  /\ pc' = "done"
  /\ conn' = "closed"
  /\ CloseSocket
  /\ result' = res
  /\ ret' = [returned |-> TRUE, result |-> res, err |-> e]

\* CheckFilteringBehavior is called and NewSTUNClient binds the socket, or
\* fails
FilteringEntry(server, ok) ==
  /\ arg' = server
  /\ IF ok
     THEN /\ pc' = "filt_testI"
          /\ conn' = "open"
          /\ BindSocket
          /\ ret' = ret
     ELSE /\ pc' = "done"
          /\ conn' = conn
          /\ socks' = socks
          /\ ret' = [returned |-> TRUE, result |-> NilResult,
                     err |-> FmtErr("STUN client creation error")]

FilteringEnter ==
  /\ pc = "idle"
  /\ top' = "CheckFilteringBehavior"
  /\ \E server \in Servers, ok \in BOOLEAN : FilteringEntry(server, ok)
  /\ UNCHANGED << portIx, serverWithPort, result, calls, wire, call, out >>
  /\ UNCHANGED << world, mapvars, fret >>
  /\ UNCHANGED parvars

\* one iteration of the Test I loop, and what follows the loop when it ends
TestI ==
  /\ pc = "filt_testI"
  /\ \E txID \in world.tx, net \in world.net :
       LET swp == [host |-> arg, port |-> Ports[portIx]]
           r == GetAlternateAddress(swp, txID, net)
       IN /\ serverWithPort' = swp
          /\ calls' = Append(calls, CallRec("GetAlternateAddress", swp, FALSE, FALSE,
                                            txID, net, r))
          /\ wire' = wire \o r.wrote
          /\ IF r.err = NoErr \/ portIx = Len(Ports)
             THEN LET step == AfterTestI(r.addr)
                  IN /\ portIx' = portIx
                     /\ IF step.return
                        THEN Return(step.result, step.err)
                        ELSE /\ pc' = "filt_testII"
                             /\ result' = step.result
                             /\ UNCHANGED << conn, ret, socks >>
             ELSE /\ portIx' = portIx + 1
                  /\ UNCHANGED << pc, conn, result, ret, socks >>
  /\ UNCHANGED << arg, call, out >>
  /\ UNCHANGED << world, top, mapvars, fret >>
  /\ UNCHANGED parvars

\* faulty variant: Test II goes to the first candidate port
TestII_FirstPort ==
  /\ pc = "filt_testII"
  /\ \E txID \in world.tx, net \in world.net :
       LET r == SendBindingRequest([host |-> arg, port |-> Ports[1]], TRUE, TRUE, txID, net)
           step == AfterTestII(result, r.addr, r.err)
       IN /\ calls' = Append(calls, CallRec("TestII", [host |-> arg, port |-> Ports[1]], TRUE, TRUE,
                                            txID, net, r))
          /\ wire' = wire \o r.wrote
          /\ IF step.return
             THEN Return(step.result, step.err)
             ELSE /\ pc' = "filt_testIII"
                  /\ result' = step.result
                  /\ UNCHANGED << conn, ret, socks >>
  /\ UNCHANGED << arg, portIx, serverWithPort, call, out >>
  /\ UNCHANGED << world, top, mapvars, fret >>
  /\ UNCHANGED parvars

TestII ==
  /\ pc = "filt_testII"
  /\ \E txID \in world.tx, net \in world.net :
       LET r == SendBindingRequest(serverWithPort, TRUE, TRUE, txID, net)
           step == AfterTestII(result, r.addr, r.err)
       IN /\ calls' = Append(calls, CallRec("TestII", serverWithPort, TRUE, TRUE,
                                            txID, net, r))
          /\ wire' = wire \o r.wrote
          /\ IF step.return
             THEN Return(step.result, step.err)
             ELSE /\ pc' = "filt_testIII"
                  /\ result' = step.result
                  /\ UNCHANGED << conn, ret, socks >>
  /\ UNCHANGED << arg, portIx, serverWithPort, call, out >>
  /\ UNCHANGED << world, top, mapvars, fret >>
  /\ UNCHANGED parvars

\* faulty variant: a failed Test III is made a second time
TestIII_Retries ==
  /\ pc = "filt_testIII"
  /\ \E txID \in world.tx, net \in world.net :
       LET r == SendBindingRequest(serverWithPort, FALSE, TRUE, txID, net)
           step == AfterTestIII(result, r.addr, r.err)
       IN /\ calls' = Append(calls, CallRec("TestIII", serverWithPort, FALSE, TRUE,
                                            txID, net, r))
          /\ wire' = wire \o r.wrote
          /\ IF r.err # NoErr /\ \A i \in 1..Len(calls) : calls[i].fn # "TestIII"
             THEN UNCHANGED << pc, conn, result, ret, socks >>
             ELSE Return(step.result, step.err)
  /\ UNCHANGED << arg, portIx, serverWithPort, call, out >>
  /\ UNCHANGED << world, top, mapvars, fret >>
  /\ UNCHANGED parvars

TestIII ==
  /\ pc = "filt_testIII"
  /\ \E txID \in world.tx, net \in world.net :
       LET r == SendBindingRequest(serverWithPort, FALSE, TRUE, txID, net)
           step == AfterTestIII(result, r.addr, r.err)
       IN /\ calls' = Append(calls, CallRec("TestIII", serverWithPort, FALSE, TRUE,
                                            txID, net, r))
          /\ wire' = wire \o r.wrote
          /\ Return(step.result, step.err)
  /\ UNCHANGED << arg, portIx, serverWithPort, call, out >>
  /\ UNCHANGED << world, top, mapvars, fret >>
  /\ UNCHANGED parvars

Next == FilteringEnter \/ TestI \/ TestII \/ TestIII

Spec == Init /\ [][Next]_vars

\* ------------------------------------------------------------------------
\* CheckMappingType (nat_checker.go)
\* ------------------------------------------------------------------------

\* fmt.Errorf("<prefix>: %w", e): a new error, not a net.Error, that wraps e
WrapErr(prefix, e) ==
  [kind |-> prefix, net |-> FALSE, timeout |-> FALSE, code |-> 0, reason |-> << >>,
   wraps |-> e]

\* the error of net.ListenUDP inside NewSTUNClient
ListenErr == MkErr("listen udp: address already in use", TRUE, FALSE, 0, << >>)

StageNames == << "A1", "B1", "A2" >>

\* the server of the probe of each stage: serverIpA, serverIpB, serverIpA
ProbeServer_ABB(stage, A, B) == IF stage = 1 THEN A ELSE B

\* faulty variant: the first probe goes to server B
ProbeServer_BBA(stage, A, B) == IF stage = 3 THEN A ELSE B

ProbeServer(stage, A, B) == IF stage = 2 THEN B ELSE A

\* the message of the error returned when a stage's loop ends with an error
StageErr(stage) ==
  IF stage = 1 THEN "request to server A failed"
  ELSE IF stage = 2 THEN "request to server B failed"
  ELSE "second request to server A failed"

CheckMappingResult(natType, maps) ==
  [nil |-> FALSE, NATType |-> natType,
   Response |-> [MappingA1 |-> maps[1], MappingB1 |-> maps[2], MappingA2 |-> maps[3]]]

\* what follows one SendBindingRequest of the loop of a stage: break on
\* success, next port on error, and after the loop either the wrapped error
\* or the next stage; after the third stage the verdict
MappingStep_NoFallback(stage, ix, maps, addr, err) ==
  LET stored == [maps EXCEPT ![stage] = addr]
  IN IF err # NoErr
     THEN [return |-> TRUE, stage |-> stage, portIx |-> ix, mappings |-> stored,
           result |-> NilMappingResult, err |-> WrapErr(StageErr(stage), err)]
     ELSE IF stage < 3
     THEN [return |-> FALSE, stage |-> stage + 1, portIx |-> 1, mappings |-> stored,
           result |-> NilMappingResult, err |-> NoErr]
     ELSE [return |-> TRUE, stage |-> stage, portIx |-> ix, mappings |-> stored,
           result |-> CheckMappingResult(
                        determineNATType(stored[1], stored[2], stored[3]), stored),
           err |-> NoErr]

MappingStep_KeepsNil(stage, ix, maps, addr, err) ==
  LET stored == maps
  IN IF err # NoErr /\ ix < Len(Ports)
     THEN [return |-> FALSE, stage |-> stage, portIx |-> ix + 1, mappings |-> stored,
           result |-> NilMappingResult, err |-> NoErr]
     ELSE IF err # NoErr
     THEN [return |-> TRUE, stage |-> stage, portIx |-> ix, mappings |-> stored,
           result |-> NilMappingResult, err |-> WrapErr(StageErr(stage), err)]
     ELSE IF stage < 3
     THEN [return |-> FALSE, stage |-> stage + 1, portIx |-> 1, mappings |-> stored,
           result |-> NilMappingResult, err |-> NoErr]
     ELSE [return |-> TRUE, stage |-> stage, portIx |-> ix, mappings |-> stored,
           result |-> CheckMappingResult(
                        IF stored[1] = NilAddr THEN Unknown
                        ELSE determineNATType(stored[1], stored[2], stored[3]), stored),
           err |-> NoErr]

MappingStep(stage, ix, maps, addr, err) ==
  LET stored == [maps EXCEPT ![stage] = addr]
  IN IF err # NoErr /\ ix < Len(Ports)
     THEN [return |-> FALSE, stage |-> stage, portIx |-> ix + 1, mappings |-> stored,
           result |-> NilMappingResult, err |-> NoErr]
     ELSE IF err # NoErr
     THEN [return |-> TRUE, stage |-> stage, portIx |-> ix, mappings |-> stored,
           result |-> NilMappingResult, err |-> WrapErr(StageErr(stage), err)]
     ELSE IF stage < 3
     THEN [return |-> FALSE, stage |-> stage + 1, portIx |-> 1, mappings |-> stored,
           result |-> NilMappingResult, err |-> NoErr]
     ELSE [return |-> TRUE, stage |-> stage, portIx |-> ix, mappings |-> stored,
           result |-> CheckMappingResult(
                        determineNATType(stored[1], stored[2], stored[3]), stored),
           err |-> NoErr]

\* where control goes when CheckMappingType returns
AfterMappingPc(t) == IF t = "CheckMappingType" THEN "done" ELSE "full_mapped"

\* return res, e from CheckMappingType: the deferred client.Close() runs
MapReturn(res, e) ==
  /\ pc' = AfterMappingPc(top)
  /\ conn' = "closed"
  /\ CloseSocket
  /\ mret' = [returned |-> TRUE, result |-> res, err |-> e]

\* entry of CheckMappingType(A, B), called by t: NewSTUNClient succeeds or fails
MappingEntry(t, A, B, ok) ==
  /\ margs' = [A |-> A, B |-> B]
  /\ IF ok
     THEN /\ pc' = "map_send"
          /\ conn' = "open"
          /\ BindSocket
          /\ mret' = mret
     ELSE /\ pc' = AfterMappingPc(t)
          /\ conn' = conn
          /\ socks' = socks
          /\ mret' = [returned |-> TRUE, result |-> NilMappingResult,
                      err |-> WrapErr("STUN client creation error", ListenErr)]
  /\ UNCHANGED << mstage, mportIx, mappings, pending >>

MappingEnter ==
  /\ pc = "idle"
  /\ top' = "CheckMappingType"
  /\ \E A \in Servers, ok \in BOOLEAN : \E B \in Servers \ { A } :
       MappingEntry("CheckMappingType", A, B, ok)
  /\ UNCHANGED << arg, portIx, serverWithPort, result, ret, calls, wire, call, out >>
  /\ UNCHANGED << world, fret >>
  /\ UNCHANGED parvars

\* SendBindingRequest up to its blocking read: the address is resolved and
\* the request written, unless one of the two fails
MapSend ==
  /\ pc = "map_send"
  /\ \E txID \in world.tx, net \in world.net :
       LET to == [host |-> ProbeServer(mstage, margs.A, margs.B),
                  port |-> Ports[mportIx]]
           r == SendBindingRequest(to, FALSE, FALSE, txID, net)
       IN /\ wire' = wire \o r.wrote
          /\ pending' = Append(pending, [to |-> to, txID |-> txID, net |-> net,
                                         wrote |-> r.wrote # << >>])
  /\ pc' = "map_recv"
  /\ UNCHANGED << conn, arg, portIx, serverWithPort, result, ret, calls, call, out >>
  /\ UNCHANGED << world, top, socks, margs, mstage, mportIx, mappings, mret, fret >>
  /\ UNCHANGED parvars

\* SendBindingRequest returns, and the loop of the stage goes on
MapRecv ==
  /\ pc = "map_recv"
  /\ LET p == Head(pending)
         r == SendBindingRequest(p.to, FALSE, FALSE, p.txID, p.net)
         step == MappingStep(mstage, mportIx, mappings, r.addr, r.err)
     IN /\ pending' = Tail(pending)
        /\ calls' = Append(calls, CallRec(StageNames[mstage], p.to, FALSE, FALSE,
                                          p.txID, p.net, r))
        /\ mstage' = step.stage
        /\ mportIx' = step.portIx
        /\ mappings' = step.mappings
        /\ IF step.return
           THEN MapReturn(step.result, step.err)
           ELSE /\ pc' = "map_send"
                /\ UNCHANGED << conn, socks, mret >>
  /\ UNCHANGED << arg, portIx, serverWithPort, result, ret, wire, call, out >>
  /\ UNCHANGED << world, top, margs, fret >>
  /\ UNCHANGED parvars

\* a Binding Success Response whose XOR-MAPPED-ADDRESS holds port p
XorSuccess(p) ==
  encodeMessage(STUNMessage(BindingResponse, ServerTxID,
                            << Attr(XorMappedAddress, XorAddrValue(p, ClientIP)) >>))

Error420 ==
  encodeMessage(STUNMessage(BindingErrorResponse, ServerTxID,
                            << Attr(ErrorCode, << 0, 0, 4, 20, 85, 110, 107 >>) >>))

InitProgram ==
  /\ pc = "idle"
  /\ conn = "none"
  /\ arg = ""
  /\ portIx = 1
  /\ serverWithPort = NoServer
  /\ result = NilResult
  /\ ret = NoRet
  /\ calls = << >>
  /\ wire = << >>
  /\ call = NoCall
  /\ out = NoOut
  /\ InitRest

InitMapping ==
  /\ InitProgram
  /\ world \in { [net |-> ({ [stage |-> "data", err |-> NoErr, data |-> XorSuccess(p)] : p \in ReflexivePorts }
                           \cup { [stage |-> "data", err |-> NoErr, data |-> Error420],
                                  [stage |-> "read", err |-> ReadTimeout, data |-> << >>],
                                  [stage |-> "resolve", err |-> (MkErr("lookup: no such host", TRUE, FALSE, 0, << >>)), data |-> << >>] }
                           \cup { [stage |-> "write", err |-> e, data |-> << >>] : e \in WriteErrs }), tx |-> { t }] : t \in TxIDs }

NextMapping == MappingEnter \/ MapSend \/ MapRecv

SpecMapping == InitMapping /\ [][NextMapping]_vars

\* ------------------------------------------------------------------------
\* FullNATDetection (nat_checker.go)
\* ------------------------------------------------------------------------

\* the error returned when CheckMappingType failed
FullMappingErr_DropsCause(e) == FmtErr("mapping determination error")

FullMappingErr(e) == WrapErr("mapping determination error", e)

\* the server handed to CheckFilteringBehavior
FilteringServer_B(A, B) == B

FilteringServer(A, B) == A

FullNATDetectionResult(mappingResult, filteringResult) ==
  [nil |-> FALSE,
   DetailedType |-> DetailedNATType(mappingResult.NATType, filteringResult.FilteringType),
   MappingResult |-> mappingResult,
   FilteringResult |-> filteringResult]

\* FullNATDetection(A, B) calls CheckMappingType(A, B)
FullEnter ==
  /\ pc = "idle"
  /\ top' = "FullNATDetection"
  /\ \E A \in Servers, ok \in BOOLEAN : \E B \in Servers \ { A } :
       MappingEntry("FullNATDetection", A, B, ok)
  /\ UNCHANGED << arg, portIx, serverWithPort, result, ret, calls, wire, call, out >>
  /\ UNCHANGED << world, fret >>
  /\ UNCHANGED parvars

\* CheckMappingType returned: on an error FullNATDetection returns, else it
\* calls CheckFilteringBehavior
FullAfterMapping ==
  /\ pc = "full_mapped"
  /\ IF mret.err # NoErr
     THEN /\ pc' = "done"
          /\ fret' = [returned |-> TRUE, result |-> NilFullResult,
                      err |-> FullMappingErr(mret.err)]
          /\ UNCHANGED << conn, arg, ret, socks >>
     ELSE /\ \E ok \in BOOLEAN : FilteringEntry(FilteringServer(margs.A, margs.B), ok)
          /\ fret' = fret
  /\ UNCHANGED << portIx, serverWithPort, result, calls, wire, call, out >>
  /\ UNCHANGED << world, top, mapvars >>
  /\ UNCHANGED parvars

\* CheckFilteringBehavior returned: FullNATDetection returns
FullFinish ==
  /\ pc = "done"
  /\ top = "FullNATDetection"
  /\ ret.returned
  /\ ~fret.returned
  /\ fret' = IF ret.err # NoErr
             THEN [returned |-> TRUE, result |-> NilFullResult,
                   err |-> WrapErr("filtering determination error", ret.err)]
             ELSE [returned |-> TRUE,
                   result |-> FullNATDetectionResult(mret.result, ret.result),
                   err |-> NoErr]
  /\ UNCHANGED << pc, conn, arg, portIx, serverWithPort, result, ret, calls, wire,
                  call, out >>
  /\ UNCHANGED << world, top, socks, mapvars >>
  /\ UNCHANGED parvars

InitFull ==
  /\ InitProgram
  /\ world \in { [net |-> ({ [stage |-> "data", err |-> NoErr, data |-> (encodeMessage(STUNMessage(BindingResponse, ServerTxID,
                                                                                                   << Attr(XorMappedAddress, XorAddrValue(12345, ClientIP)),
                                                                                                      Attr(OtherAddress, AddrValue(1, 3479, AltServerIP)) >>)))],
                             [stage |-> "data", err |-> NoErr, data |-> XorSuccess(12346)],
                             [stage |-> "data", err |-> NoErr, data |-> Error420],
                             [stage |-> "read", err |-> ReadTimeout, data |-> << >>] }), tx |-> { t }] : t \in TxIDs }

NextFull ==
  \/ FullEnter \/ MapSend \/ MapRecv \/ FullAfterMapping
  \/ TestI \/ TestII \/ TestIII \/ FullFinish

SpecFull == InitFull /\ [][NextFull]_vars

\* a network on which a request is answered by a Binding Success Response
\* with a reflexive and an alternate address, or not at all
InitLive ==
  /\ InitProgram
  /\ world = [net |-> { [stage |-> "data", err |-> NoErr,
                         data |-> encodeMessage(STUNMessage(BindingResponse, ServerTxID,
                                    << Attr(XorMappedAddress, XorAddrValue(12345, ClientIP)),
                                       Attr(OtherAddress, AddrValue(1, 3479, AltServerIP)) >>))],
                        [stage |-> "read", err |-> ReadTimeout, data |-> << >>] },
              tx |-> { FnTxID }]

\* every call of the program returns (SetReadDeadline makes ReadFromUDP
\* return after 3 or 5 seconds at the latest) and the program takes its next
\* step
SpecLive == InitLive /\ [][NextFull]_vars /\ WF_vars(NextFull)

\* ------------------------------------------------------------------------
\* CheckFilteringBehavior on a network that may deliver a reply late
\* ------------------------------------------------------------------------

\* what the next engine call of the run can meet. Its request carries a new
\* transaction ID (rand.Read); the server answers every request with a
\* Binding Success Response that echoes the ID of the request and names
\* the reflexive port it saw; the read on the run's one socket returns a
\* reply that was sent and not read so far, to this request or to an earlier
\* one whose deadline has passed, or times out
LateWorld ==
  LET next == [i \in 1..12 |-> Len(calls) + 1]
      sent == { calls[i].txID : i \in { j \in 1..Len(calls) : calls[j].wrote = 1 } }
      read == { decodeMessage(calls[i].net.data).msg.TransactionID :
                  i \in { j \in 1..Len(calls) : calls[j].net.stage = "data" } }
      Reply(t, p) == encodeMessage(STUNMessage(BindingResponse, t,
                       << Attr(XorMappedAddress, XorAddrValue(p, ClientIP)),
                          Attr(OtherAddress, AddrValue(1, 3479, AltServerIP)) >>))
  IN [net |-> { [stage |-> "read", err |-> ReadTimeout, data |-> << >>] }
                \cup { [stage |-> "data", err |-> NoErr, data |-> Reply(t, p)] :
                         t \in (sent \cup { next }) \ read, p \in ReflexivePorts },
      tx |-> { next }]

\* time passes between two engine calls: replies stay in flight or are lost
LateNet ==
  /\ world # LateWorld
  /\ world' = LateWorld
  /\ UNCHANGED << pc, conn, arg, portIx, serverWithPort, result, ret, calls, wire, call, out >>
  /\ UNCHANGED << top, socks, mapvars, fret >>
  /\ UNCHANGED parvars

InitLate ==
  /\ InitProgram
  /\ world = LateWorld

NextLate ==
  \/ (world = LateWorld /\ FilteringEnter)
  \/ (world = LateWorld /\ TestI)
  \/ (world = LateWorld /\ TestII)
  \/ (world = LateWorld /\ TestIII)
  \/ LateNet

SpecLate == InitLate /\ [][NextLate]_vars

\* ------------------------------------------------------------------------
\* CheckMappingType invoked by several callers at the same time
\* ------------------------------------------------------------------------

\* the socket behind the client of caller p: every invocation binds its own
\* with NewSTUNClient and hands it to nobody
SocketOf_Shared(p) == 1

SocketOf(p) == p

ParServers == [A |-> "stun-a.example", B |-> "stun-b.example"]

\* what the network does with a request of caller p: the NAT maps the socket
\* of p to a port of its own and the server answers, or nothing comes back
ParReplies == [p \in Callers |-> XorSuccess(12344 + p)]

ParNets(p) ==
  { [stage |-> "data", err |-> NoErr, data |-> ParReplies[p]],
    [stage |-> "read", err |-> ReadTimeout, data |-> << >>] }

\* SendBindingRequest(to, false, false), tabulated over the targets and reads
ParEngine ==
  [to \in ({ [host |-> h, port |-> Ports[i]] :
               h \in { ParServers.A, ParServers.B }, i \in 1..Len(Ports) }) |->
     [net \in (UNION { ParNets(p) : p \in Callers }) |-> SendBindingRequest(to, FALSE, FALSE, FnTxID, net)]]

\* what ReadFromUDP on socket s gives at its deadline
ReadFrom(s) ==
  IF inbox[s] = << >>
  THEN [stage |-> "read", err |-> ReadTimeout, data |-> << >>]
  ELSE [stage |-> "data", err |-> NoErr, data |-> Head(inbox[s])]

\* caller p invokes CheckMappingType: NewSTUNClient succeeds or fails
ParEnter(p) ==
  /\ par[p].pc = "idle"
  /\ \E ok \in BOOLEAN :
       par' = [par EXCEPT ![p] =
                 IF ok
                 THEN [@ EXCEPT !.pc = "send", !.bound = TRUE, !.sock = SocketOf(p),
                                !.open = TRUE]
                 ELSE [@ EXCEPT !.pc = "done",
                                !.ret = [returned |-> TRUE, result |-> NilMappingResult,
                                         err |-> WrapErr("STUN client creation error",
                                                         ListenErr)]]]
  /\ inbox' = inbox
  /\ UNCHANGED << pc, conn, arg, portIx, serverWithPort, result, ret, calls, wire, call, out >>
  /\ UNCHANGED << world, top, socks, mapvars, fret >>

\* SendBindingRequest of caller p writes its request; the answer, if one
\* comes, is queued at the socket the request came from
ParSend(p) ==
  /\ par[p].pc = "send"
  /\ \E net \in ParNets(p) :
       /\ par' = [par EXCEPT ![p] = [@ EXCEPT !.pc = "recv", !.hist = Append(@, net)]]
       /\ inbox' = IF net.stage = "data"
                   THEN [inbox EXCEPT ![par[p].sock] = Append(@, net.data)]
                   ELSE inbox
  /\ UNCHANGED << pc, conn, arg, portIx, serverWithPort, result, ret, calls, wire, call, out >>
  /\ UNCHANGED << world, top, socks, mapvars, fret >>

\* SendBindingRequest of caller p reads from its socket and returns, and the
\* loop of the stage goes on
ParRecv(p) ==
  /\ par[p].pc = "recv"
  /\ LET c == par[p]
         to == [host |-> ProbeServer(c.stage, ParServers.A, ParServers.B),
                port |-> Ports[c.portIx]]
         r == ParEngine[to][ReadFrom(c.sock)]
         step == MappingStep(c.stage, c.portIx, c.mappings, r.addr, r.err)
     IN /\ par' = [par EXCEPT ![p] =
                     [@ EXCEPT !.stage = step.stage, !.portIx = step.portIx,
                               !.mappings = step.mappings,
                               !.pc = IF step.return THEN "done" ELSE "send",
                               !.open = ~step.return,
                               !.ret = IF step.return
                                       THEN [returned |-> TRUE, result |-> step.result,
                                             err |-> step.err]
                                       ELSE @]]
        /\ inbox' = IF inbox[c.sock] = << >>
                    THEN inbox
                    ELSE [inbox EXCEPT ![c.sock] = Tail(@)]
  /\ UNCHANGED << pc, conn, arg, portIx, serverWithPort, result, ret, calls, wire, call, out >>
  /\ UNCHANGED << world, top, socks, mapvars, fret >>

InitPar ==
  /\ InitProgram
  /\ world = FullWorld

NextPar == \E p \in Callers : ParEnter(p) \/ ParSend(p) \/ ParRecv(p)

SpecPar == InitPar /\ [][NextPar]_vars

\* ------------------------------------------------------------------------
\* Pure functions applied to drawn inputs
\* ------------------------------------------------------------------------

\* reflexive endpoints handed to determineNATType
FnAddrs == { UDPAddr(ip, p) : ip \in { ClientIP, (<< 203, 0, 113, 9 >>) }, p \in ReflexivePorts }

\* attributes of the datagrams handed to SendBindingRequest: the two
\* reflexive-address forms name different ports
XorMappedAttr == Attr(XorMappedAddress, XorAddrValue(12345, ClientIP))

MappedAttr == Attr(MappedAddress, AddrValue(1, 12346, ClientIP))

MsgTypes == { BindingRequest, BindingResponse, BindingErrorResponse }

\* attributes handed to the codec: values of 0, 1, 3, 4 and 6 bytes, of
\* known types and of one the code does not know (0x8022)
CodecAttrs ==
  { STUNAttribute(32802, 0, << >>),
    STUNAttribute(32802, 1, << 115 >>),
    STUNAttribute(ErrorCode, 3, << 0, 0, 4 >>),
    STUNAttribute(ChangeRequest, 4, << 0, 0, 0, 6 >>),
    STUNAttribute(32802, 6, << 1, 2, 3, 4, 5, 255 >>) }

\* attributes whose Length is not the byte count of their Value
IllFormedAttrs ==
  { STUNAttribute(ChangeRequest, 4, << 7, 9 >>),
    STUNAttribute(ChangeRequest, 2, << 7, 9, 11, 13 >>) }

\* well-formed messages
CodecMsgs ==
  { STUNMessage(t, ServerTxID, l) :
      t \in MsgTypes, l \in UNION { [1..n -> CodecAttrs] : n \in 0..MaxAttrs } }

\* a datagram of 48 bytes: values of 3, 6 and 4 bytes, the second of a type
\* the code does not know
SampleDatagram ==
  encodeMessage(STUNMessage(BindingResponse, ServerTxID,
                            << STUNAttribute(ErrorCode, 3, << 0, 0, 4 >>),
                               STUNAttribute(32802, 6, << 1, 2, 3, 4, 5, 255 >>),
                               STUNAttribute(ChangeRequest, 4, << 0, 0, 0, 6 >>) >>))

\* a header without the magic cookie whose length field says 999, then an
\* attribute of an unknown type, then one that declares 200 bytes and has 4,
\* then a complete one that is never reached
OddDatagram ==
  << 1, 1, 3, 231, 0, 0, 0, 0 >> \o ServerTxID
    \o << 128, 34, 0, 2, 9, 9, 0, 0 >>
    \o << 0, 3, 0, 200, 0, 0, 0, 6 >>
    \o << 0, 3, 0, 4, 0, 0, 0, 2 >>

\* the value of an address attribute as a server writes it: RFC 8489
\* section 14.2 in XOR mode, section 14.1 otherwise
ServerAddrValue(family, ip, port, isXor, txID) ==
  IF isXor
  THEN LET key == STUNMagicCookieBytes \o txID
       IN AddrValue(family, Xor(port, 8466), [i \in 1..Len(ip) |-> Xor(ip[i], key[i])])
  ELSE AddrValue(family, port, ip)

FnCalls ==
  { [fn |-> "determineNATType", args |-> << a1, b1, a2 >>] :
      a1 \in FnAddrs, b1 \in FnAddrs, a2 \in FnAddrs }
  \cup
  { [fn |-> "SendBindingRequest",
     args |-> << encodeMessage(STUNMessage(t, ServerTxID, l)) >>] :
      t \in MsgTypes, l \in ({ l \in UNION { [1..n -> ({ XorMappedAttr, MappedAttr, (Attr(ErrorCode, << 0, 0, 4, 20, 85, 110, 107 >>)), (Attr(OtherAddress, AddrValue(1, 3479, AltServerIP))) })] : n \in 0..MaxAttrs } :
                                 \A i \in 1..Len(l), j \in 1..Len(l) : (i # j) => (l[i] # l[j]) }) }
  \cup
  { [fn |-> "encodeMessage", args |-> << m >>] : m \in CodecMsgs \cup ({ STUNMessage(BindingRequest, ServerTxID, << a, b >>) :
                                                                           a \in IllFormedAttrs, b \in CodecAttrs \cup IllFormedAttrs }) }
  \cup
  { [fn |-> "decodeMessage", args |-> << d >>] : d \in ({ SubSeq(d, 1, n) : d \in { SampleDatagram }, n \in 0..Len(SampleDatagram) }
                                                        \cup { SubSeq(OddDatagram, 1, n) : n \in 0..Len(OddDatagram) }) }
  \cup
  \* an endpoint that a server writes and parseAddress reads
  { [fn |-> "parseAddress.ServerAddrValue", args |-> << 1, ip, port, isXor, txID >>] :
      ip \in ({ ClientIP, << 0, 0, 0, 0 >>, << 255, 255, 255, 255 >>, STUNMagicCookieBytes }), port \in ({ 0, 8466, 12345, 65535 }), isXor \in BOOLEAN, txID \in { ServerTxID } }
  \cup
  { [fn |-> "parseAddress.ServerAddrValue", args |-> << 2, ip, port, isXor, txID >>] :
      ip \in ({ << 32, 1, 13, 184, 0, 0, 0, 0, 0, 0, 0, 0, 0, 0, 0, 1 >>,
                [i \in 1..16 |-> 255],
                STUNMagicCookieBytes \o ServerTxID }), port \in ({ 0, 8466, 12345, 65535 }), isXor \in BOOLEAN, txID \in { ServerTxID, FnTxID } }
  \cup
  { [fn |-> "parseAddress", args |-> << v, isXor, ServerTxID >>] :
      v \in ({ SubSeq(<< 0, f >> \o [i \in 1..18 |-> 40 + i], 1, n) :
                 f \in { 0, 1, 2, 3, 255 }, n \in 0..20 }), isXor \in BOOLEAN }
  \cup
  { [fn |-> "extractErrorCode",
     args |-> << STUNMessage(BindingErrorResponse, ServerTxID, << Attr(ErrorCode, v) >>) >>] :
      v \in ({ r \o << c, n >> \o phrase :
                 r \in { << 0, 0 >>, << 255, 170 >> },
                 c \in { 0, 3, 4, 6, 7, 252, 255 },
                 n \in { 0, 20, 99, 255 },
                 phrase \in { << >>, << 85, 110, 107 >> } }) }
  \cup
  \* messages with several attributes, ERROR-CODE values of 0, 3, 4 and 7 bytes
  { [fn |-> "extractErrorCode", args |-> << STUNMessage(BindingErrorResponse, ServerTxID, l) >>] :
      l \in UNION { [1..n -> { Attr(ErrorCode, << >>), Attr(ErrorCode, << 0, 0, 4 >>),
                               Attr(ErrorCode, << 0, 0, 5, 0 >>),
                               Attr(ErrorCode, << 0, 0, 4, 20, 85, 110, 107 >>),
                               MappedAttr }] : n \in 0..MaxAttrs } }
  \cup
  \* replies to the alternate-address probe: every message type, the two
  \* alternate-address attributes (with different values) in every order
  { [fn |-> "GetAlternateAddress", args |-> << encodeMessage(STUNMessage(t, ServerTxID, l)) >>] :
      t \in MsgTypes,
      l \in UNION { [1..n -> { Attr(OtherAddress, AddrValue(1, 3479, AltServerIP)),
                               Attr(ChangedAddress, AddrValue(1, 3480, AltServerIP)),
                               XorMappedAttr }] : n \in 0..MaxAttrs } }
  \cup
  \* a message that is encoded and decoded again
  { [fn |-> "decodeMessage.encodeMessage", args |-> << m >>] : m \in CodecMsgs }
  \cup
  \* the flags and the transaction ID of a request that gets no answer
  { [fn |-> "SendBindingRequest.request", args |-> << changeIP, changePort, txID >>] :
      changeIP \in BOOLEAN, changePort \in BOOLEAN, txID \in TxIDs \cup { ServerTxID } }
  \cup
  \* a Success response that echoes the transaction ID of the request
  { [fn |-> "SendBindingRequest",
     args |-> << encodeMessage(STUNMessage(BindingResponse, FnTxID, << a >>)) >>] :
      a \in { XorMappedAttr, MappedAttr } }
  \cup
  { [fn |-> "LegacyName", args |-> << DetailedNATType(m, f) >>] :
      m \in { EndpointIndependent, AddressDependent, AddressPortDependent, Unknown },
      f \in { EndpointIndependentFiltering, AddressDependentFiltering,
              AddressPortDependentFiltering, FilteringUnknown } }

InitFn ==
  /\ pc = "fn"
  /\ conn = "none"
  /\ arg = ""
  /\ portIx = 1
  /\ serverWithPort = NoServer
  /\ result = NilResult
  /\ ret = NoRet
  /\ calls = << >>
  /\ wire = << >>
  /\ call \in FnCalls
  /\ out = NoOut
  /\ world = FullWorld
  /\ InitRest

ApplyDetermineNATType ==
  /\ pc = "fn"
  /\ call.fn = "determineNATType"
  /\ ~out.done
  /\ out' = [done |-> TRUE,
             val |-> determineNATType(call.args[1], call.args[2], call.args[3])]
  /\ UNCHANGED << pc, conn, arg, portIx, serverWithPort, result, ret, calls, wire, call >>
  /\ UNCHANGED << world, top, socks, mapvars, fret >>
  /\ UNCHANGED parvars

ApplyLegacyName ==
  /\ pc = "fn"
  /\ call.fn = "LegacyName"
  /\ ~out.done
  /\ out' = [done |-> TRUE, val |-> LegacyName(call.args[1])]
  /\ UNCHANGED << pc, conn, arg, portIx, serverWithPort, result, ret, calls, wire, call >>
  /\ UNCHANGED << world, top, socks, mapvars, fret >>
  /\ UNCHANGED parvars

\* SendBindingRequest reads the drawn datagram
ApplySendBindingRequest ==
  /\ pc = "fn"
  /\ call.fn = "SendBindingRequest"
  /\ ~out.done
  /\ out' = [done |-> TRUE,
             val |-> SendBindingRequest(FnServer, FALSE, FALSE, FnTxID,
                                        [stage |-> "data", err |-> NoErr,
                                         data |-> call.args[1]])]
  /\ UNCHANGED << pc, conn, arg, portIx, serverWithPort, result, ret, calls, wire, call >>
  /\ UNCHANGED << world, top, socks, mapvars, fret >>
  /\ UNCHANGED parvars

\* GetAlternateAddress reads the drawn datagram
ApplyGetAlternateAddress ==
  /\ pc = "fn"
  /\ call.fn = "GetAlternateAddress"
  /\ ~out.done
  /\ out' = [done |-> TRUE,
             val |-> GetAlternateAddress(FnServer, FnTxID,
                                         [stage |-> "data", err |-> NoErr,
                                          data |-> call.args[1]])]
  /\ UNCHANGED << pc, conn, arg, portIx, serverWithPort, result, ret, calls, wire, call >>
  /\ UNCHANGED << world, top, socks, mapvars, fret >>
  /\ UNCHANGED parvars

\* SendBindingRequest builds and writes its request, and the read times out
ApplySendRequest ==
  /\ pc = "fn"
  /\ call.fn = "SendBindingRequest.request"
  /\ ~out.done
  /\ out' = [done |-> TRUE,
             val |-> SendBindingRequest(FnServer, call.args[1], call.args[2], call.args[3],
                                        [stage |-> "read", err |-> ReadTimeout,
                                         data |-> << >>])]
  /\ UNCHANGED << pc, conn, arg, portIx, serverWithPort, result, ret, calls, wire, call >>
  /\ UNCHANGED << world, top, socks, mapvars, fret >>
  /\ UNCHANGED parvars

ApplyEncodeMessage ==
  /\ pc = "fn"
  /\ call.fn = "encodeMessage"
  /\ ~out.done
  /\ out' = [done |-> TRUE, val |-> encodeMessage(call.args[1])]
  /\ UNCHANGED << pc, conn, arg, portIx, serverWithPort, result, ret, calls, wire, call >>
  /\ UNCHANGED << world, top, socks, mapvars, fret >>
  /\ UNCHANGED parvars

ApplyEncodeDecode ==
  /\ pc = "fn"
  /\ call.fn = "decodeMessage.encodeMessage"
  /\ ~out.done
  /\ out' = [done |-> TRUE, val |-> decodeMessage(encodeMessage(call.args[1]))]
  /\ UNCHANGED << pc, conn, arg, portIx, serverWithPort, result, ret, calls, wire, call >>
  /\ UNCHANGED << world, top, socks, mapvars, fret >>
  /\ UNCHANGED parvars

ApplyDecodeMessage ==
  /\ pc = "fn"
  /\ call.fn = "decodeMessage"
  /\ ~out.done
  /\ out' = [done |-> TRUE, val |-> decodeMessage(call.args[1])]
  /\ UNCHANGED << pc, conn, arg, portIx, serverWithPort, result, ret, calls, wire, call >>
  /\ UNCHANGED << world, top, socks, mapvars, fret >>
  /\ UNCHANGED parvars

\* parseAddress reads the value a server wrote for an endpoint
ApplyParseServerValue ==
  /\ pc = "fn"
  /\ call.fn = "parseAddress.ServerAddrValue"
  /\ ~out.done
  /\ out' = [done |-> TRUE,
             val |-> parseAddress(ServerAddrValue(call.args[1], call.args[2], call.args[3],
                                                  call.args[4], call.args[5]),
                                  call.args[4], call.args[5])]
  /\ UNCHANGED << pc, conn, arg, portIx, serverWithPort, result, ret, calls, wire, call >>
  /\ UNCHANGED << world, top, socks, mapvars, fret >>
  /\ UNCHANGED parvars

ApplyParseAddress ==
  /\ pc = "fn"
  /\ call.fn = "parseAddress"
  /\ ~out.done
  /\ out' = [done |-> TRUE,
             val |-> parseAddress(call.args[1], call.args[2], call.args[3])]
  /\ UNCHANGED << pc, conn, arg, portIx, serverWithPort, result, ret, calls, wire, call >>
  /\ UNCHANGED << world, top, socks, mapvars, fret >>
  /\ UNCHANGED parvars

ApplyExtractErrorCode ==
  /\ pc = "fn"
  /\ call.fn = "extractErrorCode"
  /\ ~out.done
  /\ out' = [done |-> TRUE, val |-> extractErrorCode(call.args[1])]
  /\ UNCHANGED << pc, conn, arg, portIx, serverWithPort, result, ret, calls, wire, call >>
  /\ UNCHANGED << world, top, socks, mapvars, fret >>
  /\ UNCHANGED parvars

NextFn ==
  \/ ApplyDetermineNATType \/ ApplyLegacyName \/ ApplySendBindingRequest
  \/ ApplySendRequest \/ ApplyEncodeMessage \/ ApplyEncodeDecode
  \/ ApplyDecodeMessage \/ ApplyParseServerValue \/ ApplyParseAddress
  \/ ApplyExtractErrorCode \/ ApplyGetAlternateAddress

SpecFn == InitFn /\ [][NextFn]_vars

\* ------------------------------------------------------------------------
\* Observations on the histories
\* ------------------------------------------------------------------------

\* the engine calls made for one step
CallIdx(fn) == { i \in 1..Len(calls) : calls[i].fn = fn }

\* the message type of the datagram a call read, -1 when it read none
ReplyType(c) ==
  IF c.net.stage = "data" /\ Len(c.net.data) >= 20
  THEN Uint16(Slice(c.net.data, 0, 2))
  ELSE -1

\* the call read a Binding Success Response and obtained a reflexive address
GotSuccessWithAddr(c) ==
  ReplyType(c) = BindingResponse /\ c.err = NoErr /\ c.addr # NilAddr

\* the call read a Binding Error Response
GotErrorResponse(c) == ReplyType(c) = BindingErrorResponse

\* the call ended in a failure of the platform that is not a timeout
IOErrorNotTimeout(c) ==
  c.net.stage \in { "resolve", "write", "read" } /\ ~c.net.err.timeout

\* attributes of the i-th datagram handed to the socket
WireAttrs(i) == decodeMessage(wire[i].data).msg.Attributes

\* a request with a CHANGE-REQUEST attribute was handed to the socket
AnyChangeRequestSent ==
  \E i \in 1..Len(wire) : \E j \in 1..Len(WireAttrs(i)) :
    WireAttrs(i)[j].Type = ChangeRequest

\* ... with the given flags
SentChangeRequest(v) ==
  \E i \in 1..Len(wire) : \E j \in 1..Len(WireAttrs(i)) :
    WireAttrs(i)[j].Type = ChangeRequest /\ WireAttrs(i)[j].Value = PutUint32(v)

TestIIIAttempted == (CallIdx("TestIII") # { }) \/ SentChangeRequest(2)

\* the call has returned a result with this verdict and this
\* SupportsChangeRequest flag, and a nil error
Returned(filteringType, changeReq) ==
  /\ pc = "done"
  /\ ret.returned
  /\ ret.err = NoErr
  /\ ~ret.result.nil
  /\ ret.result.FilteringType = filteringType
  /\ ret.result.ServerSupport.SupportsChangeRequest = changeReq

AltFailedTwice ==
  /\ Len(calls) >= 2
  /\ calls[1].fn = "GetAlternateAddress" /\ calls[1].err # NoErr
  /\ calls[2].fn = "GetAlternateAddress" /\ calls[2].err # NoErr

\* ------------------------------------------------------------------------
\* Properties
\* ------------------------------------------------------------------------

\* C1: the verdict of determineNATType on (A1, B1, A2) is
\* AddressAndPortDependent when A1.port # A2.port, otherwise
\* EndpointIndependent when A1.port = B1.port, otherwise AddressDependent.
C1_MappingVerdict ==
  (call.fn = "determineNATType" /\ out.done) =>
    LET a1 == call.args[1].Port
        b1 == call.args[2].Port
        a2 == call.args[3].Port
    IN /\ (a1 # a2) => out.val = AddressPortDependent
       /\ (a1 = a2 /\ a1 = b1) => out.val = EndpointIndependent
       /\ (a1 = a2 /\ a1 # b1) => out.val = AddressDependent

\* A1 and A2 agree, B1 differs, and the verdict has been computed
C1_Witness ==
  /\ call.fn = "determineNATType" /\ out.done
  /\ call.args[1].Port = call.args[3].Port
  /\ call.args[1].Port # call.args[2].Port
  /\ out.val = AddressDependent

\* C2: when the alternate-address probe fails on port 3478 and then on port
\* 19302, CheckFilteringBehavior has returned at once with FilteringType
\* Unknown and SupportsOtherAddress false, and no request carrying
\* CHANGE-REQUEST has been made or sent.
C2_NoAlternateAddress ==
  AltFailedTwice =>
    /\ calls[1].to.port = 3478 /\ calls[2].to.port = 19302
    /\ Returned(FilteringUnknown, FALSE)
    /\ ~ret.result.ServerSupport.SupportsOtherAddress
    /\ Len(calls) = 2
    /\ ~AnyChangeRequestSent

\* both probes failed, the second on a reply without an alternate address
C2_Witness ==
  /\ AltFailedTwice
  /\ calls[2].net.stage = "data"
  /\ pc = "done"

\* C3: when Test II reads a Success response with a reflexive address, the
\* run has returned EndpointIndependentFiltering with SupportsChangeRequest
\* true and Test III is never attempted.
C3_TestIIResponse ==
  \A i \in CallIdx("TestII") :
    GotSuccessWithAddr(calls[i]) =>
      /\ Returned(EndpointIndependentFiltering, TRUE)
      /\ ret.result.Response.TestIIResponse
      /\ ~TestIIIAttempted

C3_Witness ==
  /\ \E i \in CallIdx("TestII") : GotSuccessWithAddr(calls[i])
  /\ SentChangeRequest(6)
  /\ pc = "done"

\* C4: when Test II reads a Binding Error Response (420 or any other code),
\* the run has returned Unknown with SupportsChangeRequest false and Test
\* III is not attempted.
C4_TestIIErrorResponse ==
  \A i \in CallIdx("TestII") :
    GotErrorResponse(calls[i]) =>
      /\ Returned(FilteringUnknown, FALSE)
      /\ ~TestIIIAttempted

\* Test II was answered with error 420
C4_Witness ==
  /\ \E i \in CallIdx("TestII") :
       GotErrorResponse(calls[i]) /\ calls[i].err.code = 420
  /\ pc = "done"

\* C5: Test III is attempted if and only if Test II ended in a receive
\* timeout, and a Success response with a reflexive address to Test III
\* gives AddressDependentFiltering with SupportsChangeRequest true.
C5_TestIIIIffReceiveTimeout ==
  /\ TestIIIAttempted => \E i \in CallIdx("TestII") : (calls[i].net.stage = "read" /\ calls[i].net.err.timeout)
  /\ (pc = "done" /\ \E i \in CallIdx("TestII") : (calls[i].net.stage = "read" /\ calls[i].net.err.timeout))
       => TestIIIAttempted
  /\ \A i \in CallIdx("TestIII") :
       GotSuccessWithAddr(calls[i]) => Returned(AddressDependentFiltering, TRUE)

\* C6: once Test III has been made, every outcome other than a Success
\* response with a reflexive address gives
\* AddressAndPortDependentFiltering with SupportsChangeRequest true.
C6_TestIIIOtherwise ==
  \A i \in CallIdx("TestIII") :
    ~GotSuccessWithAddr(calls[i]) => Returned(AddressPortDependentFiltering, TRUE)

\* C7 as stated: a Test II failure of the platform that is neither a timeout
\* nor a STUN error response is returned to the caller as the error of the
\* call.
C7_Original ==
  \A i \in CallIdx("TestII") :
    IOErrorNotTimeout(calls[i]) => (pc = "done" /\ ret.returned /\ ret.err = calls[i].err)

\* C7: a Test II failure of the platform that is neither a timeout nor a
\* STUN error response is not returned to the caller: the run returns a nil
\* error with FilteringType Unknown and SupportsChangeRequest false, and
\* Test III is not attempted.
C7_IOErrorAbsorbed ==
  \A i \in CallIdx("TestII") :
    IOErrorNotTimeout(calls[i]) =>
      /\ Returned(FilteringUnknown, FALSE)
      /\ ~TestIIIAttempted

\* Test II failed in WriteToUDP
C7_Witness ==
  /\ \E i \in CallIdx("TestII") :
       IOErrorNotTimeout(calls[i]) /\ calls[i].net.stage = "write"
  /\ pc = "done"

\* C8: once the UDP endpoint was created, whatever CheckFilteringBehavior
\* returns is a non-nil result with a nil error.
C8_NeverErrors ==
  (ret.returned /\ conn # "none") => (~ret.result.nil /\ ret.err = NoErr)

\* the run returned after Test II timed out and Test III failed too
C8_Witness ==
  /\ ret.returned /\ conn # "none"
  /\ \E i \in CallIdx("TestIII") : calls[i].err # NoErr
  /\ \E i \in CallIdx("GetAlternateAddress") : calls[i].err # NoErr

\* C9: in every returned result, a verdict other than Unknown comes with
\* SupportsChangeRequest true, SupportsOtherAddress true and a non-nil
\* OtherAddress.
C9_VerdictImpliesSupport ==
  (ret.returned /\ ~ret.result.nil /\ ret.result.FilteringType # FilteringUnknown) =>
    /\ ret.result.ServerSupport.SupportsChangeRequest
    /\ ret.result.ServerSupport.SupportsOtherAddress
    /\ ret.result.Response.OtherAddress # NilAddr

C9_Witness ==
  /\ ret.returned /\ ~ret.result.nil
  /\ ret.result.FilteringType = AddressPortDependentFiltering
  /\ ret.result.Response.OtherAddress # NilAddr

\* C10: LegacyName is Full Cone, Restricted Cone and Port Restricted Cone
\* NAT for EndpointIndependent mapping with the three known filtering
\* verdicts, Symmetric NAT for AddressDependent and AddressAndPortDependent
\* mapping with any filtering, and Unknown NAT Type for every other pair.
C10_LegacyTable ==
  (call.fn = "LegacyName" /\ out.done) =>
    LET m == call.args[1].Mapping
        f == call.args[1].Filtering
    IN out.val =
         CASE m = EndpointIndependent /\ f = EndpointIndependentFiltering -> "Full Cone NAT"
           [] m = EndpointIndependent /\ f = AddressDependentFiltering -> "Restricted Cone NAT"
           [] m = EndpointIndependent /\ f = AddressPortDependentFiltering ->
                "Port Restricted Cone NAT"
           [] m \in { AddressDependent, AddressPortDependent } -> "Symmetric NAT"
           [] OTHER -> "Unknown NAT Type"

\* EndpointIndependent mapping with Unknown filtering has been named
C10_Witness ==
  /\ call.fn = "LegacyName" /\ out.done
  /\ call.args[1] = DetailedNATType(EndpointIndependent, FilteringUnknown)
  /\ out.val = "Unknown NAT Type"

\* ------------------------------------------------------------------------
\* Observations of CheckMappingType
\* ------------------------------------------------------------------------

\* the stage of a recorded mapping probe
StageOf(c) == CHOOSE k \in 1..3 : StageNames[k] = c.fn

MapCallIdx == { i \in 1..Len(calls) : calls[i].fn \in { "A1", "B1", "A2" } }

\* requests written whose engine call has not ended
Outstanding == { i \in 1..Len(pending) : pending[i].wrote }

MappingRunning == pc \in { "map_send", "map_recv" }

\* CheckMappingType returned a result and a nil error
MappingSucceeded == mret.returned /\ mret.err = NoErr

\* CheckMappingType returned the error of a failed stage
MappingStageFailed ==
  mret.returned /\ mret.err # NoErr /\ mret.err.kind # "STUN client creation error"

\* C13: the mapping probes go to A (A1), B (B1), A (A2) in this order, a
\* stage starts only after the previous one succeeded, all on the one socket
\* of the run, and a request is written only while no earlier engine call is
\* still in progress: at most one request is outstanding.
C13_SequentialProbes ==
  /\ Len(pending) <= 1
  /\ Cardinality(Outstanding) <= 1
  /\ (pc = "map_send") => (pending = << >>)
  /\ (pending # << >>) => (pc = "map_recv")
  /\ MappingRunning => (socks # << >> /\ socks[Len(socks)] = "open" /\ conn = "open")
  /\ \A i \in MapCallIdx :
       /\ calls[i].to.host = (IF calls[i].fn = "B1" THEN margs.B ELSE margs.A)
       /\ \A j \in MapCallIdx : (i < j) => (StageOf(calls[i]) <= StageOf(calls[j]))
       /\ (StageOf(calls[i]) > 1) =>
             \E j \in MapCallIdx :
               /\ j < i
               /\ StageOf(calls[j]) = StageOf(calls[i]) - 1
               /\ calls[j].err = NoErr
  /\ (top = "CheckMappingType") => (Len(socks) <= 1)

\* the three probes succeeded, each at its first attempt
C13_Witness ==
  /\ MappingSucceeded
  /\ Len(calls) = 3
  /\ calls[1].fn = "A1" /\ calls[2].fn = "B1" /\ calls[3].fn = "A2"
  /\ Len(wire) = 3

\* C14: in each mapping stage port 3478 is tried first and port 19302 only
\* after the attempt on 3478 returned an error; when the attempt on 19302
\* fails too, CheckMappingType returns a nil result and an error that names
\* the stage and wraps the error of that last attempt, and no further probe
\* is made.
C14_PortFallbackFailFast ==
  \A i \in MapCallIdx :
    LET c == calls[i]
        last == \A j \in MapCallIdx : j <= i
    IN /\ (c.to.port = Ports[1] /\ c.err # NoErr) =>
            /\ last => ~mret.returned
            /\ (~last) => /\ calls[i + 1].fn = c.fn
                          /\ calls[i + 1].to = [host |-> c.to.host, port |-> Ports[2]]
       /\ (c.to.port = Ports[2]) =>
            /\ (i - 1) \in MapCallIdx
            /\ calls[i - 1].fn = c.fn
            /\ calls[i - 1].to.port = Ports[1]
            /\ calls[i - 1].err # NoErr
       /\ (c.to.port = Ports[2] /\ c.err # NoErr) =>
            /\ last
            /\ pending = << >>
            /\ mret.returned
            /\ mret.result = NilMappingResult
            /\ mret.err.kind = StageErr(StageOf(c))
            /\ mret.err.wraps = c.err
            /\ Len(wire) = Cardinality({ j \in MapCallIdx : calls[j].net.stage # "resolve" })
       /\ (MappingStageFailed /\ last) =>
            (c.to.port = Ports[2] /\ c.err # NoErr)

\* stage B1 failed: 3478 answered with an error response, 19302 timed out
C14_Witness ==
  /\ MappingStageFailed
  /\ Len(calls) >= 3
  /\ calls[Len(calls)].fn = "B1"
  /\ calls[Len(calls)].err = ReadTimeout
  /\ calls[Len(calls) - 1].fn = "B1"
  /\ calls[Len(calls) - 1].err.code = 420
  /\ mret.err.kind = "request to server B failed"

\* C15: a CheckMappingType that returns a nil error returns a result whose
\* NATType is EndpointIndependent, AddressDependent or
\* AddressAndPortDependent, and whose MappingA1, MappingB1 and MappingA2 are
\* non-nil.
C15_SuccessComplete ==
  MappingSucceeded =>
    /\ ~mret.result.nil
    /\ mret.result.NATType \in { EndpointIndependent, AddressDependent, AddressPortDependent }
    /\ mret.result.NATType # Unknown
    /\ mret.result.Response.MappingA1 # NilAddr
    /\ mret.result.Response.MappingB1 # NilAddr
    /\ mret.result.Response.MappingA2 # NilAddr

\* a run that ends with the AddressDependent verdict
C15_Witness ==
  /\ MappingSucceeded
  /\ mret.result.NATType = AddressDependent
  /\ mret.result.Response.MappingA1.Port # mret.result.Response.MappingB1.Port

\* ------------------------------------------------------------------------
\* Observations of FullNATDetection
\* ------------------------------------------------------------------------

FiltCallIdx == { i \in 1..Len(calls) : calls[i].fn \in ({ "GetAlternateAddress", "TestII", "TestIII" }) }

FilteringRunning == pc \in { "filt_testI", "filt_testII", "filt_testIII" }

\* CheckMappingType returned an error to FullNATDetection
MappingFailedInFull == top = "FullNATDetection" /\ mret.returned /\ mret.err # NoErr

\* C11: FullNATDetection(A, B) enters the filtering classifier only after
\* CheckMappingType(A, B) returned a nil error, every filtering probe comes
\* after every mapping probe and goes to server A, and the DetailedType of a
\* returned result is the pair (NATType of its MappingResult, FilteringType
\* of its FilteringResult), these being the two classifiers' results.
C11_MappingThenFiltering ==
  (top = "FullNATDetection") =>
    /\ (FilteringRunning \/ ret.returned \/ FiltCallIdx # { }) =>
          (MappingSucceeded /\ arg = margs.A)
    /\ \A i \in FiltCallIdx :
          /\ calls[i].to.host = margs.A
          /\ \A j \in MapCallIdx : j < i
    /\ (fret.returned /\ fret.err = NoErr) =>
          /\ ~fret.result.nil
          /\ MappingSucceeded
          /\ ret.returned /\ ret.err = NoErr
          /\ fret.result.MappingResult = mret.result
          /\ fret.result.FilteringResult = ret.result
          /\ fret.result.DetailedType =
               [Mapping |-> mret.result.NATType, Filtering |-> ret.result.FilteringType]

\* a run that ends with (AddressDependent, AddressDependentFiltering)
C11_Witness ==
  /\ top = "FullNATDetection"
  /\ fret.returned /\ fret.err = NoErr
  /\ fret.result.DetailedType =
       [Mapping |-> AddressDependent, Filtering |-> AddressDependentFiltering]
  /\ (CallIdx("TestIII") # { })

\* C12 as stated: when CheckMappingType fails, FullNATDetection returns no
\* result, starts no filtering, and returns the very error of
\* CheckMappingType.
C12_Original ==
  (MappingFailedInFull /\ fret.returned) =>
    /\ fret.result = NilFullResult
    /\ FiltCallIdx = { }
    /\ fret.err = mret.err

\* C12: when CheckMappingType fails, FullNATDetection returns a nil result
\* without entering the filtering classifier (no second socket, no filtering
\* probe, no CHANGE-REQUEST on the wire), and its error is a new error that
\* wraps the error of CheckMappingType.
C12_AbortWrapped ==
  MappingFailedInFull =>
    /\ pc \in { "full_mapped", "done" }
    /\ FiltCallIdx = { }
    /\ ~ret.returned
    /\ ~AnyChangeRequestSent
    /\ Len(socks) <= 1
    /\ Len(wire) <= Len(calls)
    /\ (pc = "done") => fret.returned
    /\ fret.returned =>
          /\ fret.result = NilFullResult
          /\ fret.err # mret.err
          /\ fret.err = WrapErr("mapping determination error", mret.err)

\* the third mapping stage failed and FullNATDetection returned
C12_Witness ==
  /\ MappingFailedInFull
  /\ fret.returned
  /\ mret.err.kind = "second request to server A failed"
  /\ fret.err = WrapErr("mapping determination error", mret.err)

\* C16: a classifier that runs has bound one new socket, which is open and is
\* the only open one; when a classifier has returned, on any path, every
\* socket bound so far is closed; FullNATDetection binds at most one socket
\* per classifier, and when it has returned none is open.
C16_EndpointsReleased ==
  /\ Cardinality({ i \in 1..Len(socks) : socks[i] = "open" }) <= 1
  /\ MappingRunning =>
        (Len(socks) = 1 /\ socks[1] = "open")
  /\ FilteringRunning =>
        /\ socks # << >> /\ socks[Len(socks)] = "open"
        /\ Len(socks) = (IF top = "FullNATDetection" THEN 2 ELSE 1)
  /\ (mret.returned /\ ~FilteringRunning) => (\A i \in 1..Len(socks) : socks[i] = "closed")
  /\ ret.returned => (\A i \in 1..Len(socks) : socks[i] = "closed")
  /\ fret.returned => (\A i \in 1..Len(socks) : socks[i] = "closed")
  /\ (pc = "done") => (\A i \in 1..Len(socks) : socks[i] = "closed")
  /\ Len(socks) <= 2

\* FullNATDetection returned after both classifiers ran: two sockets, closed
C16_Witness ==
  /\ top = "FullNATDetection"
  /\ fret.returned
  /\ ret.returned /\ ret.err = NoErr
  /\ socks = << "closed", "closed" >>

\* ------------------------------------------------------------------------
\* Observations of SendBindingRequest applied to one datagram
\* ------------------------------------------------------------------------

\* the call of the state to the function fn has returned
Applied(fn) == call.fn = fn /\ out.done

\* the message the datagram decodes to
Received == decodeMessage(call.args[1]).msg

HasAttr(type) ==
  \E i \in 1..Len(Received.Attributes) : Received.Attributes[i].Type = type

\* the index of the first attribute of a type
FirstAttr(type) ==
  CHOOSE i \in 1..Len(Received.Attributes) :
    /\ Received.Attributes[i].Type = type
    /\ \A j \in 1..(i - 1) : Received.Attributes[j].Type # type

\* C18: for a Binding Success Response that carries XOR-MAPPED-ADDRESS and
\* MAPPED-ADDRESS, in either order, SendBindingRequest returns the address
\* of the XOR-MAPPED-ADDRESS attribute.
C18_XorPrecedence ==
  (/\ Applied("SendBindingRequest")
   /\ Received.MessageType = BindingResponse
   /\ HasAttr(XorMappedAddress) /\ HasAttr(MappedAddress)) =>
    /\ out.val.err = NoErr
    /\ out.val.addr = UDPAddr(ClientIP, 12345)

\* C19: for a Binding Error Response SendBindingRequest returns a nil address
\* and a STUN error whose code is class * 100 + number and whose reason is
\* the rest of the first ERROR-CODE attribute (0 and empty when there is
\* none), whatever other attributes the message carries.
C19_ErrorResponse ==
  (Applied("SendBindingRequest") /\ Received.MessageType = BindingErrorResponse) =>
    /\ out.val.addr = NilAddr
    /\ out.val.err # NoErr
    /\ out.val.err.kind = "STUN error response"
    /\ IF HasAttr(ErrorCode)
       THEN LET v == Received.Attributes[FirstAttr(ErrorCode)].Value
            IN /\ out.val.err.code = (v[3] % 8) * 100 + v[4]
               /\ out.val.err.reason = SubSeq(v, 5, Len(v))
       ELSE /\ out.val.err.code = 0
            /\ out.val.err.reason = << >>

\* an error response 420 "Unk" whose first attribute is XOR-MAPPED-ADDRESS
C19_Witness ==
  /\ Applied("SendBindingRequest")
  /\ Received.MessageType = BindingErrorResponse
  /\ Len(Received.Attributes) >= 2
  /\ Received.Attributes[1].Type = XorMappedAddress
  /\ HasAttr(ErrorCode)
  /\ out.val.addr = NilAddr
  /\ out.val.err.code = 420
  /\ out.val.err.reason = << 85, 110, 107 >>

\* C20: a message that is neither a Binding Success Response with a
\* reflexive-address attribute nor a Binding Error Response makes
\* SendBindingRequest return "mapped address not found"; an address is
\* returned only for message type 0x0101.
C20_OnlySuccessYieldsAddress ==
  Applied("SendBindingRequest") =>
    /\ (/\ Received.MessageType # BindingErrorResponse
        /\ ~(/\ Received.MessageType = BindingResponse
             /\ (HasAttr(XorMappedAddress) \/ HasAttr(MappedAddress)))) =>
          (out.val.addr = NilAddr /\ out.val.err = (FmtErr("mapped address not found in response")))
    /\ (out.val.addr # NilAddr) => (Received.MessageType = BindingResponse)

\* ------------------------------------------------------------------------
\* Observations of simultaneous invocations
\* ------------------------------------------------------------------------

\* what CheckMappingType returns when it runs alone and the network treats
\* its requests as the list nets says, one entry per request
RECURSIVE SoloRun(_, _, _, _)
SoloRun(stage, ix, maps, nets) ==
  IF nets = << >>
  THEN NoMapRet
  ELSE LET to == [host |-> ProbeServer(stage, ParServers.A, ParServers.B),
                  port |-> Ports[ix]]
           r == ParEngine[to][Head(nets)]
           step == MappingStep(stage, ix, maps, r.addr, r.err)
       IN IF step.return
          THEN [returned |-> TRUE, result |-> step.result, err |-> step.err]
          ELSE SoloRun(step.stage, step.portIx, step.mappings, Tail(nets))

\* C17: callers that run CheckMappingType at the same time hold different
\* sockets, a socket queues only answers to its own caller's outstanding
\* request, and under every interleaving what a caller gets back is what
\* CheckMappingType returns alone when the network treats its requests the
\* same way.
C17_NoInterference ==
  /\ \A p \in Callers, q \in Callers :
       (p # q /\ par[p].bound /\ par[q].bound) => (par[p].sock # par[q].sock)
  /\ \A p \in Callers :
       /\ par[p].bound =>
            /\ Len(inbox[par[p].sock]) <= 1
            /\ (inbox[par[p].sock] # << >>) =>
                  /\ par[p].pc = "recv"
                  /\ Head(inbox[par[p].sock]) = par[p].hist[Len(par[p].hist)].data
       /\ (par[p].bound /\ par[p].ret.returned) =>
            /\ par[p].ret = SoloRun(1, 1, IdleCaller.mappings, par[p].hist)
            /\ ~par[p].open

\* caller 1 has returned a verdict while the second request of caller 2 is
\* outstanding
C17_Witness ==
  /\ par[1].bound /\ par[1].ret.returned /\ par[1].ret.err = NoErr
  /\ par[1].ret.result.Response.MappingA1 = UDPAddr(ClientIP, 12345)
  /\ par[2].pc = "recv"
  /\ Len(par[2].hist) = 2
  /\ par[2].hist[1].stage = "read"

\* C21: SendBindingRequest does not compare transaction IDs: a Binding
\* Success Response whose transaction ID differs from the one of the request
\* is accepted like one that echoes it, and the address of its first
\* reflexive-address attribute is returned.
C21_TxIDNotCompared ==
  (/\ Applied("SendBindingRequest")
   /\ Received.MessageType = BindingResponse
   /\ Len(Received.Attributes) >= 1
   /\ Received.Attributes[1].Type \in { XorMappedAddress, MappedAddress }) =>
    /\ out.val.err = NoErr
    /\ out.val.addr =
         (IF Received.Attributes[1].Type = XorMappedAddress
          THEN UDPAddr(ClientIP, 12345)
          ELSE UDPAddr(ClientIP, 12346))
    /\ out.val.reads = 1

\* a response with a foreign transaction ID gave the address
C21_Witness ==
  /\ Applied("SendBindingRequest")
  /\ Received.MessageType = BindingResponse
  /\ Received.TransactionID # FnTxID
  /\ Received.TransactionID = ServerTxID
  /\ Received.Attributes = << XorMappedAttr >>
  /\ out.val.addr = UDPAddr(ClientIP, 12345)
  /\ out.val.err = NoErr

\* C22: every SendBindingRequest of a mapping run hands exactly one datagram
\* to the socket, or none when the resolution failed, and reads the socket at
\* most once (not at all when the resolution or the write failed); the wire
\* carries no datagram beyond these, and the run has bound one socket, which
\* stays open for all its calls.
C22_OneOutOneIn ==
  /\ \A i \in MapCallIdx :
       /\ calls[i].wrote <= 1
       /\ calls[i].reads <= 1
       /\ calls[i].wrote = (IF calls[i].net.stage = "resolve" THEN 0 ELSE 1)
       /\ calls[i].reads = (IF calls[i].net.stage \in { "read", "data" } THEN 1 ELSE 0)
  /\ Len(wire) =
       Cardinality({ i \in MapCallIdx : calls[i].wrote = 1 })
         + Cardinality(Outstanding)
  /\ \A i \in 1..Len(wire) : decodeMessage(wire[i].data).msg.MessageType = BindingRequest
  /\ (top = "CheckMappingType") => Len(socks) <= 1
  /\ MappingRunning => (Len(socks) = 1 /\ socks[1] = "open")

\* a run with a failed resolution, a failed write, a receive timeout and an
\* answer: three datagrams for four calls
C22_Witness ==
  /\ Len(calls) >= 4
  /\ \E i \in MapCallIdx : calls[i].net.stage = "resolve"
  /\ \E i \in MapCallIdx : calls[i].net.stage = "write"
  /\ \E i \in MapCallIdx : calls[i].net.stage = "read"
  /\ \E i \in MapCallIdx : calls[i].net.stage = "data"
  /\ Len(wire) = Len(calls) - 1
  /\ pending = << >>

\* ------------------------------------------------------------------------
\* Observations of the codec
\* ------------------------------------------------------------------------

\* C23: the request carries one CHANGE-REQUEST attribute exactly when
\* changeIP or changePort is set; the datagram is then 00 01 00 08, the magic
\* cookie, the transaction ID and 00 03 00 04 00 00 00 v with v = 4 for
\* changeIP alone, 2 for changePort alone and 6 for both; otherwise it is the
\* 20-byte header with length 0.
C23_ChangeRequestBytes ==
  Applied("SendBindingRequest.request") =>
    LET changeIP == call.args[1]
        changePort == call.args[2]
        tid == call.args[3]
        v == CASE changeIP /\ changePort -> 6
               [] changeIP /\ ~changePort -> 4
               [] ~changeIP /\ changePort -> 2
               [] OTHER -> 0
    IN /\ Len(out.val.wrote) = 1
       /\ out.val.wrote[1].data =
            (IF changeIP \/ changePort
             THEN << 0, 1, 0, 8, 33, 18, 164, 66 >> \o tid \o << 0, 3, 0, 4, 0, 0, 0, v >>
             ELSE << 0, 1, 0, 0, 33, 18, 164, 66 >> \o tid)
       /\ Len(out.val.wrote[1].data) = (IF changeIP \/ changePort THEN 28 ELSE 20)

\* the request with changePort alone has been written: value 2
C23_Witness ==
  /\ Applied("SendBindingRequest.request")
  /\ ~call.args[1] /\ call.args[2]
  /\ SubSeq(out.val.wrote[1].data, 21, 28) = << 0, 3, 0, 4, 0, 0, 0, 2 >>

\* pad_to_4 of a value length
PadTo4(n) == (4 - (n % 4)) % 4

\* the bytes that the first k attributes of a list occupy
RECURSIVE SizeOfFirst(_, _)
SizeOfFirst(attrs, k) ==
  IF k = 0 THEN 0
  ELSE SizeOfFirst(attrs, k - 1) + 4 + attrs[k].Length + PadTo4(attrs[k].Length)

\* C24: decoding the encoding of a well-formed message succeeds and gives
\* back its message type, its transaction ID and its attributes, each with
\* the same type, length and value, in the same order; the value lengths
\* drawn include 0, 1, 3 and 6.
C24_RoundTrip ==
  (call.fn = "decodeMessage.encodeMessage" /\ out.done) =>
    LET m == call.args[1]
        d == out.val.msg
    IN /\ out.val.err = NoErr
       /\ d.MessageType = m.MessageType
       /\ d.TransactionID = m.TransactionID
       /\ Len(d.Attributes) = Len(m.Attributes)
       /\ \A k \in 1..Len(m.Attributes) :
            /\ d.Attributes[k].Type = m.Attributes[k].Type
            /\ d.Attributes[k].Length = m.Attributes[k].Length
            /\ d.Attributes[k].Value = m.Attributes[k].Value

\* a value of 3 bytes is followed by one of 1 byte and one of 6
C24_Witness ==
  /\ call.fn = "decodeMessage.encodeMessage" /\ out.done
  /\ Len(call.args[1].Attributes) = 3
  /\ call.args[1].Attributes[1].Length = 3
  /\ call.args[1].Attributes[2].Length = 1
  /\ call.args[1].Attributes[3].Length = 6
  /\ out.val.msg.Attributes[3].Value = << 1, 2, 3, 4, 5, 255 >>

\* C25: the buffer of encodeMessage has 20 + S bytes, S being the sum over
\* the attributes of 4 + Length + pad_to_4(Length); it starts with the
\* message type, S, the magic cookie 21 12 A4 42 and the transaction ID; each
\* attribute follows in list order as type, Length, the Length bytes of the
\* value and zero bytes up to the next multiple of 4.
C25_EncodeLayout ==
  (call.fn = "encodeMessage" /\ out.done) =>
    LET m == call.args[1]
        data == out.val
        n == Len(m.Attributes)
        S == SizeOfFirst(m.Attributes, n)
    IN /\ Len(data) = 20 + S
       /\ data[1] * 256 + data[2] = m.MessageType
       /\ data[3] * 256 + data[4] = S
       /\ SubSeq(data, 5, 8) = << 33, 18, 164, 66 >>
       /\ SubSeq(data, 9, 20) = m.TransactionID
       /\ \A k \in 1..n :
            LET a == m.Attributes[k]
                o == 20 + SizeOfFirst(m.Attributes, k - 1)
            IN /\ data[o + 1] * 256 + data[o + 2] = a.Type
               /\ data[o + 3] * 256 + data[o + 4] = a.Length
               /\ (Len(a.Value) = a.Length) =>
                     (SubSeq(data, o + 5, o + 4 + a.Length) = a.Value)
               /\ \A i \in 1..a.Length :
                     data[o + 4 + i] = (IF i <= Len(a.Value) THEN a.Value[i] ELSE 0)
               /\ \A i \in 1..PadTo4(a.Length) : data[o + 4 + a.Length + i] = 0

\* an Error Response with values of 1, 6 and 4 bytes: 20 + 8 + 12 + 8 bytes
C25_Witness ==
  /\ call.fn = "encodeMessage" /\ out.done
  /\ call.args[1].MessageType = BindingErrorResponse
  /\ Len(call.args[1].Attributes) = 3
  /\ call.args[1].Attributes[1].Length = 1
  /\ call.args[1].Attributes[2].Length = 6
  /\ call.args[1].Attributes[3].Length = 4
  /\ Len(out.val) = 48
  /\ SubSeq(out.val, 1, 4) = << 1, 17, 0, 28 >>

\* C26: decodeMessage fails with "message too short" on every input of fewer
\* than 20 bytes and succeeds on every longer one, whatever its bytes 2..8
\* (length field and magic cookie) say; the message type is bytes 0..2 and
\* the transaction ID bytes 8..20.
C26_HeaderOnly ==
  Applied("decodeMessage") =>
    LET data == call.args[1]
    IN IF Len(data) < 20
       THEN out.val.err = FmtErr("message too short")
       ELSE /\ out.val.err = NoErr
            /\ out.val.msg.MessageType = data[1] * 256 + data[2]
            /\ out.val.msg.TransactionID = SubSeq(data, 9, 20)

\* 28 bytes without the magic cookie and with a length field of 999 decoded
C26_Witness ==
  /\ Applied("decodeMessage")
  /\ Len(call.args[1]) = 28
  /\ SubSeq(call.args[1], 3, 8) = << 3, 231, 0, 0, 0, 0 >>
  /\ out.val.err = NoErr
  /\ out.val.msg.MessageType = BindingResponse
  /\ out.val.msg.TransactionID = ServerTxID

\* C27: the attributes decodeMessage returns are those that lie one after
\* another from offset 20, each with the type and length of its header and
\* with exactly its Length bytes as value (the padding is skipped), whatever
\* their type; the list ends, without an error, where the buffer ends, where
\* fewer than 4 bytes remain, or at the first attribute whose header plus
\* declared length goes beyond the buffer.
C27_AttributeWalk ==
  (Applied("decodeMessage") /\ Len(call.args[1]) >= 20) =>
    LET data == call.args[1]
        attrs == out.val.msg.Attributes
        n == Len(attrs)
        end == 20 + SizeOfFirst(attrs, n)
    IN /\ out.val.err = NoErr
       /\ \A k \in 1..n :
            LET o == 20 + SizeOfFirst(attrs, k - 1)
                L == attrs[k].Length
            IN /\ o + 4 + L <= Len(data)
               /\ attrs[k].Type = data[o + 1] * 256 + data[o + 2]
               /\ L = data[o + 3] * 256 + data[o + 4]
               /\ Len(attrs[k].Value) = L
               /\ attrs[k].Value = SubSeq(data, o + 5, o + 4 + L)
       /\ \/ end >= Len(data)
          \/ end + 4 > Len(data)
          \/ end + 4 + (data[end + 3] * 256 + data[end + 4]) > Len(data)

\* the attribute of the unknown type 0x8022 is returned, the one declaring
\* 200 bytes ends the walk, and the complete attribute after it is not reached
C27_Witness ==
  /\ Applied("decodeMessage")
  /\ call.args[1] = OddDatagram
  /\ out.val.err = NoErr
  /\ out.val.msg.Attributes = << STUNAttribute(32802, 2, << 9, 9 >>) >>


\* C28: in XOR mode parseAddress undoes the obfuscation of the port and of
\* the IPv4 or IPv6 address (the latter with the transaction ID it is given),
\* so it returns the endpoint the server wrote; in plain mode it returns the
\* port and address bytes of the value as they are
C28_ParseAddressInverts ==
  Applied("parseAddress.ServerAddrValue") =>
    /\ out.val.err = NoErr
    /\ out.val.addr = UDPAddr(call.args[2], call.args[3])
    /\ ~call.args[4] =>
         LET v == ServerAddrValue(call.args[1], call.args[2], call.args[3], FALSE, call.args[5])
         IN /\ out.val.addr.Port = 256 * v[3] + v[4]
            /\ out.val.addr.IP = SubSeq(v, 5, Len(v))

C28_Witness ==
  /\ Applied("parseAddress.ServerAddrValue")
  /\ call.args[1] = 2
  /\ call.args[4]
  /\ call.args[5] = ServerTxID
  /\ call.args[3] = 12345
  /\ out.val.addr = UDPAddr(call.args[2], 12345)
  /\ ServerAddrValue(2, call.args[2], 12345, TRUE, ServerTxID)
       # ServerAddrValue(2, call.args[2], 12345, FALSE, ServerTxID)

\* C29 as stated: an IPv4 value of fewer than 8 bytes and an IPv6 value of
\* fewer than 20 bytes give a short-address error, every other family byte
\* gives an unsupported-family error, and no address is produced
C29_Original ==
  (Applied("parseAddress") /\ Len(call.args[1]) >= 2) =>
    LET data == call.args[1]
        family == data[2]
    IN /\ (family = 1 /\ Len(data) < 8) =>
            (out.val.err \in ({ FmtErr("address data too short"), FmtErr("IPv6 address data too short") }) /\ out.val.addr = NilAddr)
       /\ (family = 2 /\ Len(data) < 20) =>
            (out.val.err \in ({ FmtErr("address data too short"), FmtErr("IPv6 address data too short") }) /\ out.val.addr = NilAddr)
       /\ family \notin { 1, 2 } =>
            (out.val.err = FmtErr("unsupported address family") /\ out.val.addr = NilAddr)

\* C29: a value of fewer than 8 bytes gives a short-address error whatever
\* its family byte, an IPv6 value of 8 to 19 bytes gives a short-address
\* error, a value of at least 8 bytes with any other family byte than 1 and 2
\* gives an unsupported-family error, and none of them produces an address
C29_ShortBeforeFamily ==
  Applied("parseAddress") =>
    LET data == call.args[1]
    IN /\ Len(data) < 8 =>
            (out.val.err = FmtErr("address data too short") /\ out.val.addr = NilAddr)
       /\ (Len(data) >= 8 /\ data[2] = 2 /\ Len(data) < 20) =>
            (out.val.err = FmtErr("IPv6 address data too short") /\ out.val.addr = NilAddr)
       /\ (Len(data) >= 8 /\ data[2] \notin { 1, 2 }) =>
            (out.val.err = FmtErr("unsupported address family") /\ out.val.addr = NilAddr)
       /\ (Len(data) >= 8 /\ (data[2] = 1 \/ (data[2] = 2 /\ Len(data) >= 20))) =>
            (out.val.err = NoErr /\ out.val.addr # NilAddr)

C29_Witness ==
  /\ Applied("parseAddress")
  /\ Len(call.args[1]) = 6
  /\ call.args[1][2] = 3
  /\ out.val.err = FmtErr("address data too short")
  /\ out.val.addr = NilAddr

\* the value of the ERROR-CODE attribute of the message of the state
ErrorValue ==
  LET attrs == call.args[1].Attributes
  IN IF Len(attrs) = 1 /\ attrs[1].Type = ErrorCode THEN attrs[1].Value ELSE << >>

\* C30: for an ERROR-CODE value of at least 4 bytes the code is 100 times
\* the low three bits of the third byte plus the fourth byte, whatever the
\* first two bytes and the upper five bits of the third byte are, and the
\* reason is the bytes from offset 4 on (empty for a value of 4 bytes)
C30_ErrorCodeValue ==
  (Applied("extractErrorCode") /\ Len(ErrorValue) >= 4) =>
    /\ out.val.code = 100 * (ErrorValue[3] % 8) + ErrorValue[4]
    /\ out.val.reason = SubSeq(ErrorValue, 5, Len(ErrorValue))
    /\ Len(ErrorValue) = 4 => out.val.reason = << >>

C30_Witness ==
  /\ Applied("extractErrorCode")
  /\ ErrorValue = << 255, 170, 252, 20, 85, 110, 107 >>
  /\ out.val.code = 420
  /\ out.val.reason = << 85, 110, 107 >>


\* C31: extractErrorCode returns the code and reason of the first
\* ERROR-CODE attribute in attribute order, and (0, empty) if the message has
\* none or if that first ERROR-CODE attribute is shorter than 4 bytes, even
\* when a later ERROR-CODE attribute is long enough
C31_FirstErrorCode ==
  Applied("extractErrorCode") =>
    LET attrs == call.args[1].Attributes
        idx == { i \in 1..Len(attrs) : attrs[i].Type = ErrorCode }
        first == CHOOSE i \in idx : \A j \in idx : i <= j
        v == attrs[first].Value
    IN IF idx = { } \/ Len(v) < 4
       THEN out.val = [code |-> 0, reason |-> << >>]
       ELSE out.val = [code |-> 100 * (v[3] % 8) + v[4], reason |-> SubSeq(v, 5, Len(v))]


C39_OnlySuccessYieldsAlternate ==
  (Applied("GetAlternateAddress") /\ Received.MessageType # BindingResponse) =>
    (out.val.addr = NilAddr /\ out.val.err # NoErr)


\* C33: in every result of CheckFilteringBehavior, TestIIResponse is true
\* iff Test II was made and read a Success response with a reflexive
\* address, TestIIIResponse is true iff Test III was made and read one, the
\* two are never both true, FilteringType is EndpointIndependentFiltering
\* iff TestIIResponse and AddressDependentFiltering iff TestIIIResponse
C33_ResponseFlags ==
  (pc = "done" /\ ret.returned /\ ~ret.result.nil) =>
    LET r == ret.result
    IN /\ r.Response.TestIIResponse
            <=> \E i \in CallIdx("TestII") : GotSuccessWithAddr(calls[i])
       /\ r.Response.TestIIIResponse
            <=> \E i \in CallIdx("TestIII") : GotSuccessWithAddr(calls[i])
       /\ ~(r.Response.TestIIResponse /\ r.Response.TestIIIResponse)
       /\ (r.FilteringType = EndpointIndependentFiltering) <=> r.Response.TestIIResponse
       /\ (r.FilteringType = AddressDependentFiltering) <=> r.Response.TestIIIResponse


\* C34: the verdict of determineNATType is the verdict of every run whose
\* endpoints have the same three ports and any other IP addresses, and the
\* result built from the verdict holds the three observed endpoints, IP
\* addresses included, unchanged
C34_PortsOnly ==
  Applied("determineNATType") =>
    /\ \A x \in FnAddrs, y \in FnAddrs, z \in FnAddrs :
         (/\ x.Port = call.args[1].Port
          /\ y.Port = call.args[2].Port
          /\ z.Port = call.args[3].Port) => determineNATType(x, y, z) = out.val
    /\ LET res == CheckMappingResult(out.val, call.args)
       IN /\ res.NATType = out.val
          /\ res.Response.MappingA1 = call.args[1]
          /\ res.Response.MappingB1 = call.args[2]
          /\ res.Response.MappingA2 = call.args[3]

C34_Witness ==
  /\ Applied("determineNATType")
  /\ call.args[1].IP # call.args[3].IP
  /\ call.args[1].IP # call.args[2].IP
  /\ call.args[1].Port = call.args[2].Port
  /\ call.args[1].Port = call.args[3].Port
  /\ out.val = EndpointIndependent
  /\ determineNATType(call.args[1], call.args[1], call.args[1]) = EndpointIndependent


\* C35: TestIIIResponse is true, and the verdict AddressDependentFiltering
\* is given, only if the datagram read at Test III is the reply to the
\* Test III request; the reply to the alternate-address probe or to Test II
\* that arrives after its deadline is not counted as the Test III response
C35_ReplyAttributedToStep ==
  (/\ pc = "done" /\ ret.returned /\ ~ret.result.nil
   /\ \/ ret.result.Response.TestIIIResponse
      \/ ret.result.FilteringType = AddressDependentFiltering) =>
    \E i \in CallIdx("TestIII") :
      /\ calls[i].net.stage = "data"
      /\ decodeMessage(calls[i].net.data).msg.TransactionID = calls[i].txID


\* C36 as stated: in every successful CheckMappingType run the request
\* whose response produced A1 and the request whose response produced A2
\* were sent to the same host and port
C36_Original ==
  MappingSucceeded =>
    \A i \in CallIdx("A1"), j \in CallIdx("A2") :
      (calls[i].err = NoErr /\ calls[j].err = NoErr) => calls[i].to = calls[j].to

\* C36: in every successful CheckMappingType run the request whose response
\* produced A1 and the request whose response produced A2 were sent to the
\* same host, server A; each of the two went to port 3478, or to port 19302
\* after the request of its own probe to port 3478 had failed, so the two
\* ports can differ
C36_SameHost ==
  MappingSucceeded =>
    \A i \in CallIdx("A1"), j \in CallIdx("A2") :
      (calls[i].err = NoErr /\ calls[j].err = NoErr) =>
        /\ calls[i].to.host = margs.A
        /\ calls[j].to.host = margs.A
        /\ \A k \in { i, j } :
             \/ calls[k].to.port = Ports[1]
             \/ /\ calls[k].to.port = Ports[2]
                /\ k > 1
                /\ calls[k - 1].fn = calls[k].fn
                /\ calls[k - 1].to = [host |-> margs.A, port |-> Ports[1]]
                /\ calls[k - 1].err # NoErr

C36_Witness ==
  /\ MappingSucceeded
  /\ \E i \in CallIdx("A1"), j \in CallIdx("A2") :
       /\ calls[i].err = NoErr /\ calls[j].err = NoErr
       /\ calls[i].to.host = calls[j].to.host
       /\ calls[i].to.port = Ports[2]
       /\ calls[j].to.port = Ports[1]


\* C37: the alternate-address probe goes to port 19302 only as the second
\* attempt, after the attempt on port 3478 failed; Test II and Test III are
\* each made at most once in a run and send at most one request, and each
\* goes to the host and port on which the alternate-address probe succeeded
C37_PortsOfSteps ==
  /\ \A i \in CallIdx("GetAlternateAddress") :
       /\ calls[i].to.host = arg
       /\ \/ (i = 1 /\ calls[i].to.port = Ports[1])
          \/ /\ i = 2 /\ calls[i].to.port = Ports[2]
             /\ calls[1].fn = "GetAlternateAddress"
             /\ calls[1].to.port = Ports[1]
             /\ calls[1].err # NoErr
  /\ Cardinality(CallIdx("TestII")) <= 1
  /\ Cardinality(CallIdx("TestIII")) <= 1
  /\ (pc = "done" /\ \E j \in CallIdx("GetAlternateAddress") : calls[j].err = NoErr) =>
       Cardinality(CallIdx("TestII")) = 1
  /\ \A i \in CallIdx("TestII") \cup CallIdx("TestIII") :
       /\ calls[i].wrote <= 1
       /\ \E j \in CallIdx("GetAlternateAddress") :
            /\ j < i
            /\ calls[j].err = NoErr
            /\ calls[j].to = calls[i].to
  /\ \A i \in 1..Len(wire) :
       (\E j \in 1..Len(WireAttrs(i)) : WireAttrs(i)[j].Type = ChangeRequest) =>
         \E j \in CallIdx("GetAlternateAddress") :
           calls[j].err = NoErr /\ calls[j].to = wire[i].to
  /\ Cardinality({ i \in 1..Len(wire) : WireAttrs(i) # << >> }) <= 2

C37_Witness ==
  /\ pc = "done"
  /\ Len(calls) = 4
  /\ calls[1].err # NoErr
  /\ calls[2].fn = "GetAlternateAddress" /\ calls[2].err = NoErr
  /\ calls[2].to.port = Ports[2]
  /\ calls[3].fn = "TestII" /\ calls[3].to = calls[2].to /\ calls[3].wrote = 1
  /\ calls[4].fn = "TestIII" /\ calls[4].to = calls[2].to /\ calls[4].wrote = 1


\* C38: a run that has been started comes to the state in which
\* CheckMappingType has returned, CheckFilteringBehavior, if it was called,
\* has returned, and the caller has its answer; at no time has
\* CheckMappingType made more than 6 requests or CheckFilteringBehavior more
\* than 4 (two alternate-address attempts, Test II, Test III), each request
\* putting at most one datagram on the wire
C38_Terminates ==
  /\ [](/\ Cardinality(MapCallIdx) <= 6
        /\ Cardinality(FiltCallIdx) <= 4
        /\ Cardinality(CallIdx("GetAlternateAddress")) <= 2
        /\ Len(wire) <= Len(calls) + Len(pending))
  /\ (pc # "idle") ~> (/\ mret.returned
                        /\ (FiltCallIdx # { }) => ret.returned
                        /\ fret.returned)

C38_Witness ==
  /\ fret.returned
  /\ mret.returned
  /\ ret.returned
  /\ Cardinality(MapCallIdx) = 6
  /\ Cardinality(FiltCallIdx) = 4
  /\ Len(wire) = 10

\* C40: for every input buffer the attribute loop of decodeMessage ends and
\* reads nothing outside the buffer: it makes at most one iteration per 4
\* bytes behind the header, each iteration starts at least 4 bytes after
\* the one before, the 4 header bytes it reads and the value it copies lie
\* between offset 20 and the end of the input, and an input shorter than a
\* header is not walked at all.
C40_LoopInBounds ==
  Applied("decodeMessage") =>
    LET data == call.args[1]
        attrs == out.val.msg.Attributes
        n == Len(attrs)
        offset(k) == 20 + SizeOfFirst(attrs, k - 1)
    IN /\ (Len(data) < 20) => (n = 0)
       /\ (Len(data) >= 20) => (4 * n <= Len(data) - 20)
       /\ \A k \in 1..n :
            /\ 20 <= offset(k)
            /\ offset(k) + 4 <= Len(data)
            /\ offset(k) + 4 + Len(attrs[k].Value) <= Len(data)
            /\ offset(k + 1) >= offset(k) + 4

\* the input ends inside the padding of its only complete attribute: the
\* offset moves from 20 to 28, one byte past the 27 of the buffer, and the
\* loop stops there
C40_Witness ==
  /\ Applied("decodeMessage")
  /\ Len(call.args[1]) = 27
  /\ Len(out.val.msg.Attributes) = 1
  /\ out.val.msg.Attributes[1].Value = << 0, 0, 4 >>
  /\ 20 + SizeOfFirst(out.val.msg.Attributes, 1) = 28

====
